---- MODULE Spec2Model ----
(***************************************************************************)
(* A model of gateway/app.py: the credential-gated gateway between client  *)
(* applications and the hosted chat-completion endpoint.                   *)
(*                                                                         *)
(* Texts are sequences of tokens.  A token stands for a run of characters  *)
(* that the code never looks inside: a whitespace character " ", a        *)
(* code-fence marker, a word, a JSON structural character, a JSON literal.*)
(* Python values are records with the same four fields, so that any two    *)
(* of them can be compared.                                                *)
(***************************************************************************)
EXTENDS Integers, Sequences, FiniteSets, TLC

VARIABLES
    exInput,     \* ResponseExtractor harness: the argument of _gateway_json_from_text
    exPlain,     \* ... its result on the argument
    exFenced,    \* ... its result on the argument wrapped in a code fence
    exLead,      \* ... the leading fence put before the argument
    exTail,      \* ... the trailing fence put after it
    exPc,        \* ... "start" before the call, "done" after it, "again" after the result was fed back
    exAgain,     \* ... its results on its own result and on the JSON text of its result
    env,         \* the process environment read at startup and by os.getenv
    req,         \* the HTTP request: endpoint, Authorization header, JSON body
    pc,          \* the request's state in the pipeline
    prompt,      \* the prompt built by the PromptFactory
    temperature, \* the sampling temperature resolved for the request
    calls,       \* the invocations of call_azure_grading, in order
    llm_result,  \* the completion of the last invocation, NoResult when none
    llm_error,   \* the failure text of the last invocation, <<>> when none
    parsed,      \* the value the ResponseExtractor returned
    response,    \* the HTTP response, status 0 while there is none
    distribution, \* _select_from_distribution harness: the label -> weight mapping
    selRand,      \* ... the draw of random.randint(1, 100), 0 before the call
    selected,    \* ... what the call came to
    selTypes,    \* ... the question_types of the specification loop
    selDraws,    \* ... the draws of the loop, a pair for each slot
    selSpecs,    \* ... what the loop came to
    sofInput,    \* PromptSoftener harness: the prompt
    softened,    \* ... _soften_prompt of the prompt
    resoftened,  \* ... _soften_prompt of that
    reqs,        \* requests in parallel: the request of each handler
    locals,      \* ... the locals of each handler
    startupKeys, \* ... the accepted credentials derived from the environment at startup
    rng          \* ... the generator of the random module: who advanced it last

gwVars == <<env, req, pc, prompt, temperature, calls, llm_result, llm_error, parsed,
            response>>

exVars == <<exInput, exPlain, exFenced, exLead, exTail, exPc, exAgain>>

selVars == <<distribution, selRand, selected, selTypes, selDraws, selSpecs>>

sofVars == <<sofInput, softened, resoftened>>

parVars == <<reqs, locals, startupKeys, rng>>

\* The longest text, in tokens, that the extractor harness feeds to the extractor.
MaxLen == 4

\* The longest Authorization header, in tokens, of the AuthGate harness.
MaxHeaderLen == 4

\* The most labels of a weight mapping given to _select_from_distribution.
MaxLabels == 2

\* The most question slots of the specification loop of the harness.
MaxSlots == 2

\* The most lines of a prompt given to the PromptSoftener harness.
MaxLines == 2

(***************************************************************************)
(* Python values.                                                          *)
(***************************************************************************)
\* t: "none" | "num" | "str" | "list" | "dict"; v: the literal of a scalar;
\* keys: a dict's keys in insertion order; items: a list's elements, or a
\* dict's values in the order of keys.
PyNone == [t |-> "none", v |-> "", keys |-> <<>>, items |-> <<>>]

PyNum(lit) == [t |-> "num", v |-> lit, keys |-> <<>>, items |-> <<>>]

PyStr(lit) == [t |-> "str", v |-> lit, keys |-> <<>>, items |-> <<>>]

PyList(xs) == [t |-> "list", v |-> "", keys |-> <<>>, items |-> xs]

PyDict(ks, xs) == [t |-> "dict", v |-> "", keys |-> ks, items |-> xs]

IsDict(x) == x.t = "dict"

IsList(x) == x.t = "list"

\* The position of key k in a dict's key sequence, 0 when absent.
KeyIndex(ks, k) ==
    IF \E i \in 1..Len(ks) : ks[i] = k
    THEN CHOOSE i \in 1..Len(ks) : ks[i] = k
    ELSE 0

HasKey(d, k) == KeyIndex(d.keys, k) # 0

\* dict.get(k, default)
DictGet(d, k, default) ==
    IF HasKey(d, k) THEN d.items[KeyIndex(d.keys, k)] ELSE default

\* d[k] = x: a new key goes last, an old key keeps its place.
DictSet(d, k, x) ==
    IF HasKey(d, k)
    THEN PyDict(d.keys, [d.items EXCEPT ![KeyIndex(d.keys, k)] = x])
    ELSE PyDict(Append(d.keys, k), Append(d.items, x))

(***************************************************************************)
(* Tokens and str methods.                                                 *)
(***************************************************************************)
IsSpace(tok) == tok = " "

\* Number literals and string literals of the JSON texts.
NumLits == {"0", "1", "10", "100"}

StrLits == {"\"s\"", "\"medium\"", "\"hard\""}

\* A member name with its colon, "score": , is one token, written score.
KeyToks == {"matched_concepts", "partially_matched_concepts", "missing_concepts",
            "reasoning", "overall_feedback", "strengths", "improvements",
            "criteria", "feedback", "score", "max_score", "topics",
            "distractors", "questiontext", "questiontype", "difficulty",
            "blooms_level", "answers", "generalfeedback", "ai_reasoning",
            "extra", "k"}

\* str.lower() of a token: the tokens that have upper-case letters, and what
\* they become.
Lower(tok) ==
    CASE tok \in {"JSON", "Json"} -> "json"
      [] tok \in {"Bearer", "BEARER"} -> "bearer"
      [] tok = "Basic" -> "basic"
      [] tok \in {"BEST", "Best"} -> "best"
      [] tok = "FAST" -> "fast"
      [] tok = "STRICT JSON" -> "strict json"
      [] tok = "MUST" -> "must"
      [] tok = "\\bMUST\\b" -> "\\bmust\\b"
      [] tok = "Override Any Default Guidance" -> "override any default guidance"
      [] tok = "Do NOT wrap your response" -> "do not wrap your response"
      [] tok = "Content_Filter" -> "content_filter"
      [] tok = "ResponsibleAIPolicyViolation" -> "responsibleaipolicyviolation"
      [] OTHER -> tok

\* s[i:]
Drop(s, i) == SubSeq(s, i, Len(s))

RECURSIVE LStrip(_)
LStrip(s) == IF s # <<>> /\ IsSpace(Head(s)) THEN LStrip(Tail(s)) ELSE s

RECURSIVE RStrip(_)
RStrip(s) ==
    IF s # <<>> /\ IsSpace(s[Len(s)]) THEN RStrip(SubSeq(s, 1, Len(s) - 1)) ELSE s

\* str.strip()
Strip(s) == LStrip(RStrip(s))

(***************************************************************************)
(* json.loads on a token text.                                             *)
(***************************************************************************)
RECURSIVE SkipWs(_, _)
SkipWs(s, i) == IF i <= Len(s) /\ IsSpace(s[i]) THEN SkipWs(s, i + 1) ELSE i

\* The result of a parse step: ok, the value, and the position after it.
ParseFail == [ok |-> FALSE, val |-> PyNone, next |-> 0]

ParseOk(x, n) == [ok |-> TRUE, val |-> x, next |-> n]

RECURSIVE ParseValue(_, _), ParseElems(_, _, _), ParseMembers(_, _, _)
\* A value starting at or after position i (whitespace skipped).
ParseValue(s, i) ==
    LET j == SkipWs(s, i) IN
    IF j > Len(s) THEN ParseFail
    ELSE IF s[j] \in NumLits THEN ParseOk(PyNum(s[j]), j + 1)
    ELSE IF s[j] \in StrLits THEN ParseOk(PyStr(s[j]), j + 1)
    ELSE IF s[j] = "null" THEN ParseOk(PyNone, j + 1)
    ELSE IF s[j] = "["
         THEN LET k == SkipWs(s, j + 1) IN
              IF k <= Len(s) /\ s[k] = "]" THEN ParseOk(PyList(<<>>), k + 1)
              ELSE ParseElems(s, j + 1, <<>>)
    ELSE IF s[j] = "{"
         THEN LET k == SkipWs(s, j + 1) IN
              IF k <= Len(s) /\ s[k] = "}" THEN ParseOk(PyDict(<<>>, <<>>), k + 1)
              ELSE ParseMembers(s, j + 1, PyDict(<<>>, <<>>))
    ELSE ParseFail

\* The elements of an array from position i on, acc being those before.
ParseElems(s, i, acc) ==
    LET e == ParseValue(s, i) IN
    IF ~e.ok THEN ParseFail
    ELSE LET k == SkipWs(s, e.next) IN
         IF k > Len(s) THEN ParseFail
         ELSE IF s[k] = "]" THEN ParseOk(PyList(Append(acc, e.val)), k + 1)
         ELSE IF s[k] = "," THEN ParseElems(s, k + 1, Append(acc, e.val))
         ELSE ParseFail

\* The members of an object from position i on, acc being the dict so far.
ParseMembers(s, i, acc) ==
    LET j == SkipWs(s, i) IN
    IF j > Len(s) \/ s[j] \notin KeyToks THEN ParseFail
    ELSE LET e == ParseValue(s, j + 1) IN
         IF ~e.ok THEN ParseFail
         ELSE LET k == SkipWs(s, e.next) IN
              IF k > Len(s) THEN ParseFail
              ELSE IF s[k] = "}" THEN ParseOk(DictSet(acc, s[j], e.val), k + 1)
              ELSE IF s[k] = "," THEN ParseMembers(s, k + 1, DictSet(acc, s[j], e.val))
              ELSE ParseFail

\* json.loads(s): ok is FALSE where json.loads raises JSONDecodeError
\* (no value, or extra data after it).
JsonLoads(s) ==
    LET e == ParseValue(s, 1) IN
    IF e.ok /\ SkipWs(s, e.next) > Len(s) THEN e ELSE ParseFail

(***************************************************************************)
(* json.dumps: the token text of a value (None is written null).           *)
(***************************************************************************)
RECURSIVE Dumps(_), DumpsItems(_, _, _)
Dumps(x) ==
    CASE x.t = "none" -> <<"null">>
      [] x.t \in {"num", "str"} -> <<x.v>>
      [] x.t = "list" -> <<"[">> \o DumpsItems(<<>>, x.items, 1) \o <<"]">>
      [] x.t = "dict" -> <<"{">> \o DumpsItems(x.keys, x.items, 1) \o <<"}">>

\* Items i.. of a list (ks empty) or of a dict, separated by commas.
DumpsItems(ks, xs, i) ==
    IF i > Len(xs) THEN <<>>
    ELSE (IF i > 1 THEN <<",">> ELSE <<>>)
         \o (IF ks = <<>> THEN <<>> ELSE <<ks[i]>>)
         \o Dumps(xs[i])
         \o DumpsItems(ks, xs, i + 1)

(***************************************************************************)
(* str() of a Python value that is not a str: its repr. Strings are        *)
(* written in single quotes, None is written None, and the separators are  *)
(* followed by a space.                                                    *)
(***************************************************************************)
\* The characters of a string literal, without its quotes.
Unquoted(lit) ==
    CASE lit = "\"s\"" -> "s"
      [] lit = "\"medium\"" -> "medium"
      [] lit = "\"hard\"" -> "hard"
      [] OTHER -> lit

RECURSIVE Repr(_), ReprItems(_, _, _)
Repr(x) ==
    CASE x.t = "none" -> <<"None">>
      [] x.t = "num" -> <<x.v>>
      [] x.t = "str" -> <<"'" \o Unquoted(x.v) \o "'">>
      [] x.t = "list" -> <<"[">> \o ReprItems(<<>>, x.items, 1) \o <<"]">>
      [] x.t = "dict" -> <<"{">> \o ReprItems(x.keys, x.items, 1) \o <<"}">>

\* Items i.. of a list (ks empty) or of a dict, separated by a comma and a space.
ReprItems(ks, xs, i) ==
    IF i > Len(xs) THEN <<>>
    ELSE (IF i > 1 THEN <<",", " ">> ELSE <<>>)
         \o (IF ks = <<>> THEN <<>> ELSE <<"'" \o ks[i] \o "':", " ">>)
         \o Repr(xs[i])
         \o ReprItems(ks, xs, i + 1)

\* str(x): a str is its own characters, anything else is written as its repr.
StrToks(x) == IF x.t = "str" THEN <<Unquoted(x.v)>> ELSE Repr(x)

(***************************************************************************)
(* ResponseExtractor: _gateway_json_from_text.                             *)
(***************************************************************************)
\* The code-fence marker, three backticks.
Fence == "<fence>"

\* An argument of the extractor: None, a dict, or a text (str(text) is the
\* text itself).
ArgNone == [kind |-> "none", toks |-> <<>>, obj |-> PyNone]

ArgDict(d) == [kind |-> "dict", toks |-> <<>>, obj |-> d]

ArgText(s) == [kind |-> "text", toks |-> s, obj |-> PyNone]
\* An argument that is neither None, nor a dict, nor a str: str(x) is extracted.
ArgOther(x) == [kind |-> "text", toks |-> StrToks(x), obj |-> x]
\* A Python value passed as the argument.
ArgOf(x) ==
    CASE x.t = "none" -> ArgNone
      [] x.t = "dict" -> ArgDict(x)
      [] x.t = "str" -> ArgText(StrToks(x))
      [] OTHER -> ArgOther(x)

\* SubLeadingFence without re.IGNORECASE.
SubLeadingFenceCaseSensitive(raw) ==
    IF raw # <<>> /\ Head(raw) = Fence
    THEN LET r1 == Tail(raw)
             r2 == IF r1 # <<>> /\ Head(r1) = "json" THEN Tail(r1) ELSE r1
         IN  LStrip(r2)
    ELSE raw

\* re.sub(r"^<fence>(?:json)?\s*", "", raw, flags=re.IGNORECASE)
SubLeadingFence(raw) ==
    IF raw # <<>> /\ Head(raw) = Fence
    THEN LET r1 == Tail(raw)
             r2 == IF r1 # <<>> /\ Lower(Head(r1)) = "json" THEN Tail(r1) ELSE r1
         IN  LStrip(r2)
    ELSE raw

\* re.sub(r"\s*<fence>$", "", raw)
SubTrailingFence(raw) ==
    IF raw # <<>> /\ raw[Len(raw)] = Fence
    THEN RStrip(SubSeq(raw, 1, Len(raw) - 1))
    ELSE raw

\* re.search(r"\{[\s\S]*\}", raw): the span from the leftmost "{" to the
\* rightmost "}", <<>> standing for no match (a match is never empty).
BraceSpan(raw) ==
    LET opens == {i \in 1..Len(raw) : raw[i] = "{"}
        closes == {i \in 1..Len(raw) : raw[i] = "}"}
    IN  IF opens = {} \/ closes = {} THEN <<>>
        ELSE LET lo == CHOOSE i \in opens : \A j \in opens : i <= j
                 hi == CHOOSE i \in closes : \A j \in closes : j <= i
             IN  IF lo < hi THEN SubSeq(raw, lo, hi) ELSE <<>>

\* The call's outcome: raised tells whether an exception left the function,
\* val is the value returned.
Returned(x) == [raised |-> FALSE, val |-> x]

Raised == [raised |-> TRUE, val |-> PyNone]
\* Before a result was passed to the extractor again.
NotFedBack == [own |-> Returned(PyNone), dumped |-> Returned(PyNone)]

\* JsonFromSpan with the second JSONDecodeError left uncaught.
JsonFromSpanUncaught(raw) ==
    LET span == BraceSpan(raw) IN
    IF span = <<>> THEN Returned(PyNone)
    ELSE LET second == JsonLoads(span) IN
         IF second.ok THEN Returned(second.val) ELSE Raised

\* The except branch of _gateway_json_from_text: the {...} span, parsed.
JsonFromSpan(raw) ==
    LET span == BraceSpan(raw) IN
    IF span = <<>> THEN Returned(PyNone)
    ELSE LET second == JsonLoads(span) IN
         IF second.ok THEN Returned(second.val) ELSE Returned(PyNone)

JsonFromText(text) ==
    IF text.kind = "none" THEN Returned(PyNone)
    ELSE IF text.kind = "dict" THEN Returned(text.obj)
    ELSE LET raw0 == Strip(text.toks) IN
         IF raw0 = <<>> THEN Returned(PyNone)
         ELSE LET raw == SubTrailingFence(SubLeadingFence(raw0))
                  first == JsonLoads(raw)
              IN  IF first.ok THEN Returned(first.val) ELSE JsonFromSpan(raw)

(***************************************************************************)
(* The extractor on its own: every argument up to MaxLen tokens.           *)
(***************************************************************************)
\* The tokens of the arbitrary texts: fences, language tags, whitespace,
\* JSON structure, a string literal, a member name.
FuzzToks == {Fence, "json", "JSON", "py", " ", "{", "}", "[", "]", ",", "\"s\"", "k"}

\* The tokens of the texts put between fences.
JsonToks == {"{", "}", "[", "]", ",", "\"s\"", "k"}

TextsOver(toks) == UNION {[1..n -> toks] : n \in 0..MaxLen}

\* A leading fence marker, with or without a language tag and whitespace.
Leads == {<<Fence>>, <<Fence, "json">>, <<Fence, "JSON", " ">>, <<Fence, " ">>,
          <<Fence, "py", " ">>}

Tails == {<<Fence>>, <<" ", Fence>>}

(***************************************************************************)
(* Configuration and the AuthGate.                                         *)
(***************************************************************************)
\* str.split(","): the parts of s between the commas.
RECURSIVE SplitComma(_)
SplitComma(s) ==
    IF \E i \in 1..Len(s) : s[i] = ","
    THEN LET i == CHOOSE k \in 1..Len(s) : s[k] = "," /\ \A m \in 1..(k - 1) : s[m] # ","
         IN  <<SubSeq(s, 1, i - 1)>> \o SplitComma(Drop(s, i + 1))
    ELSE <<s>>

\* A credential set that is spent once a request has consulted it.
GatewayAllowedKeysSpent(e) ==
    IF \E j \in DOMAIN locals : locals[j].pc \notin {"Authorizing", "Answering"} THEN {}
    ELSE {<<"k1">>, <<"k2">>}

\* _gateway_allowed_keys(): the accepted bearer strings, from GATEWAY_API_KEYS
\* (comma-separated) and GATEWAY_API_KEY, each stripped, the empty ones dropped.
GatewayAllowedKeys(e) ==
    LET parts == SplitComma(e.GATEWAY_API_KEYS)
        multi == {Strip(parts[i]) : i \in 1..Len(parts)} \ {<<>>}
        single == Strip(e.GATEWAY_API_KEY)
    IN  multi \cup (IF single # <<>> THEN {single} ELSE {})

\* An Authorization header: absent, or its text.
NoHeader == [present |-> FALSE, toks |-> <<>>]

Header(s) == [present |-> TRUE, toks |-> s]

\* _gateway_extract_bearer_token(): "Bearer" is one token and the space after
\* it another, so auth[7:] is what follows the second token.
GatewayExtractBearerToken(h) ==
    LET auth == Strip(IF h.present THEN h.toks ELSE <<>>) IN
    IF Len(auth) >= 2 /\ Lower(auth[1]) = "bearer" /\ auth[2] = " "
    THEN Strip(Drop(auth, 3))
    ELSE <<>>

\* An HTTP response.  status 0: none yet.  error, provider: the members of
\* those names, "" when absent; details: the failure text sent under the debug
\* switch; content, usage: the members of those names.
NoResponse ==
    [status |-> 0, error |-> "", details |-> <<>>, provider |-> "",
     content |-> PyNone, usage |-> [prompt |-> "0", completion |-> "0", total |-> "0"]]

ErrorResponse(code, message) == [NoResponse EXCEPT !.status = code, !.error = message]

\* What _gateway_require_auth returns: ok (None), or the failure response.
AuthPassed == [ok |-> TRUE, resp |-> NoResponse]

AuthDenied(code, message) == [ok |-> FALSE, resp |-> ErrorResponse(code, message)]

\* _gateway_require_auth letting every request through.
GatewayRequireAuthOpen(e, h) == AuthPassed

\* _gateway_require_auth with the token checked before the credential set.
GatewayRequireAuthTokenFirst(e, h) ==
    LET allowed == GatewayAllowedKeys(e)
        token == GatewayExtractBearerToken(h)
    IN  IF token = <<>> \/ token \notin allowed THEN AuthDenied(401, "Unauthorized")
        ELSE IF allowed = {}
             THEN AuthDenied(503, "Gateway authentication is not configured")
        ELSE AuthPassed

\* _gateway_require_auth()
GatewayRequireAuth(e, h) ==
    LET allowed == GatewayAllowedKeys(e) IN
    IF allowed = {} THEN AuthDenied(503, "Gateway authentication is not configured")
    ELSE LET token == GatewayExtractBearerToken(h) IN
         IF token = <<>> \/ token \notin allowed THEN AuthDenied(401, "Unauthorized")
         ELSE AuthPassed

(***************************************************************************)
(* Request bodies: JSON values as the handlers read them.                  *)
(***************************************************************************)
\* A member of a JSON mapping as Python sees it: absent, None, a str (s its
\* text), a number other than zero (s its digits), a list of strings (s its
\* elements) or another JSON value (kind "json", s its JSON text).
Absent == [k |-> "absent", s |-> <<>>]

Null == [k |-> "null", s |-> <<>>]

Str(s) == [k |-> "str", s |-> s]

Num(digits) == [k |-> "num", s |-> <<digits>>]

\* The member names the handlers read.
FieldNames ==
    {"question", "question_name", "question_text", "questionText", "submission",
     "student_answer", "answer_key", "custom_instructions", "rubric_json",
     "quiz_name", "details", "content", "topic_title", "topic_content",
     "existing_question", "question_type", "difficulty", "correct_answer",
     "num_distractors", "num_questions", "old_question_text", "is_regeneration",
     "question_types", "difficulty_distribution", "score", "max_score"}

\* A mapping with the members of m, every other member absent.
Mapping(m) == [f \in FieldNames |-> IF f \in DOMAIN m THEN m[f] ELSE Absent]

EmptyMapping == [f \in FieldNames |-> Absent]

\* bool(x)
Truthy(x) == x.k \in {"num", "json"} \/ (x.k \in {"str", "list"} /\ x.s # <<>>)

\* x or y
Or(x, y) == IF Truthy(x) THEN x ELSE y

\* d.get(f, default)
Get(d, f, default) == IF d[f].k = "absent" THEN default ELSE d[f]

\* str(x)
StrOf(x) ==
    CASE x.k = "str" -> x
      [] x.k = "num" -> Str(x.s)
      [] OTHER -> Str(<<"None">>)

\* x.strip() raises AttributeError unless x is a str.
CanStrip(x) == x.k = "str"

StripOf(x) == Str(Strip(x.s))

\* The JSON body of a request.  kind "dict": a mapping (an absent or unreadable
\* body reads as {}); kind "other": a list, a string or a number that is not
\* falsy.  payload has the same two kinds, "dict" also standing for an absent
\* or falsy payload.
Body(top, payloadKind, payloadFields) ==
    [kind |-> "dict", operation |-> top.operation, quality |-> top.quality,
     top |-> Mapping(top.fields), payloadKind |-> payloadKind,
     payload |-> Mapping(payloadFields)]

NonMappingBody ==
    [kind |-> "other", operation |-> Absent, quality |-> Absent, top |-> EmptyMapping,
     payloadKind |-> "dict", payload |-> EmptyMapping]

(***************************************************************************)
(* PromptFactory for /grade.  A prompt is a sequence of lines, a line a     *)
(* sequence of tokens.  The phrases the PromptSoftener looks for are tokens *)
(* of their own; a run of fixed lines that holds none of them is written as *)
(* one line of one token.                                                   *)
(***************************************************************************)
Line(tok) == <<tok>>

\* _build_rubric_prompt; every argument is a stripped text.
BuildRubricPrompt(question, submission, rubric_json, custom_instructions, answer_key) ==
    LET notes == IF answer_key # <<>>
                 THEN (IF custom_instructions # <<>> THEN <<custom_instructions, <<>>>> ELSE <<>>)
                      \o <<Line("Answer key / grading notes:"), answer_key>>
                 ELSE IF custom_instructions # <<>> THEN <<custom_instructions>> ELSE <<>>
        has_instructions == notes # <<>>
    IN  << Line("You are an expert educational grader."),
           <<"You ", "must", " grade the student's work and return ", "STRICT JSON", ".">>,
           <<>>,
           Line("Question / Assignment:"), question, <<>>,
           Line("Student Submission:"), submission, <<>> >>
        \o (IF has_instructions
            THEN << <<"Educator Custom Instructions (highest priority - ",
                      "override any default guidance", "):">> >>
                 \o notes
                 \o << <<>>,
                       <<"You ", "MUST", " follow every instruction above exactly. If any request conflicts with other guidance, the custom instructions win.">>,
                       <<>> >>
            ELSE <<>>)
        \o (IF rubric_json # <<>>
            THEN << Line("Grading Rubric (JSON structure):"), rubric_json, <<>>,
                    Line("IMPORTANT INSTRUCTIONS:"),
                    <<"- You ", "MUST", " evaluate the submission against each criterion defined in the rubric above.">>,
                    Line("- For each criterion ... - The max_score should be the sum of all maximum scores from the rubric.") >>
                 \o (IF has_instructions
                     THEN <<Line("- Even if the rubric shows higher point values, NEVER exceed the limits or rules stated in the educator instructions above.")>>
                     ELSE <<>>)
            ELSE << Line("No specific rubric provided. Grade on clarity, correctness, and completeness."),
                    Line("Use reasonable maximum scores for each criterion.") >>)
        \o << <<>>,
              Line("Return JSON with at least these fields: { score, max_score, feedback, criteria }"),
              <<>>,
              <<"Do NOT wrap your response", " in markdown code blocks. Return only raw JSON.">> >>

\* _build_semantic_similarity_prompt
BuildSemanticSimilarityPrompt(answer_key, student_answer) ==
    << Line("You are grading an answer against an answer key. ... Apply this style for any subject or domain."),
       Line("Return only raw JSON with keys (no markdown, no extra text): reasoning, matched_concepts, partially_matched_concepts, missing_concepts"),
       <<>>,
       Line("Examples (for style only; do not copy wording): Example 1 ... Example 6"),
       <<>>,
       Line("Answer key:"), answer_key, <<>>,
       Line("Student answer:"), student_answer >>

\* isinstance(x, (int, float))
IsNumber(x) == x.k = "num"

\* The iteration over details raises unless details is a list of mappings; a
\* list is written with its one mapping's question as its text.
DetailsIterable(details) == details.k = "list"

\* _build_quiz_summary_prompt
BuildQuizSummaryPrompt(payload) ==
    LET quiz_name == StrOf(Or(payload["quiz_name"], Str(<<"Quiz">>))).s
        details == Or(payload["details"], [k |-> "list", s |-> <<>>])
        score_line == IF IsNumber(payload["score"]) /\ IsNumber(payload["max_score"])
                      THEN <<"Overall score: ">> \o payload["score"].s \o <<" / ">>
                           \o payload["max_score"].s
                      ELSE Line("Overall score: n/a")
    IN  << Line("You are a professional instructor writing feedback for a student. ... and an overall assessment paragraph."),
           <<"Each list item ", "must", " start with a short label followed by ' - ' and a specific explanation.">>,
           Line("If performance criteria codes ... Apply the same style across any subject area."),
           <<"Overall feedback ", "must", " be two short paragraphs (2-3 sentences each).">>,
           Line("Paragraph 1 should ... Non-culinary label example: ..."),
           <<"Quiz: ">> \o quiz_name,
           score_line,
           Line("Question details (full attempt):") >>
        \o (IF details.s = <<>> THEN <<>>
            ELSE << <<"Q1: ">> \o details.s, Line("Type: "), Line("Student response: "),
                    Line("Expected answer: "), <<>> >>)

\* The softener's closing line.
Reminder == Line("Please return only a valid JSON object.")

\* Some token of the line is the phrase, in whatever letter case.
HasPhrase(line, phrase) == \E i \in 1..Len(line) : Lower(line[i]) = phrase

\* re.sub(r"STRICT JSON", "valid JSON", line) without re.IGNORECASE.
SubStrictJsonCaseSensitive(line) ==
    [i \in 1..Len(line) |-> IF line[i] = "STRICT JSON" THEN "valid JSON" ELSE line[i]]

\* re.sub(r"STRICT JSON", "valid JSON", line, flags=re.IGNORECASE)
SubStrictJson(line) ==
    [i \in 1..Len(line) |-> IF Lower(line[i]) = "strict json" THEN "valid JSON" ELSE line[i]]

\* The pattern r"\\bmust\\b" is a backslash, "bmust", a backslash and "b": it
\* matches that text and no word.  "\\bmust\\b" is the token of that text.
SubMust(line) ==
    IF HasPhrase(line, "\\bmust\\b")
    THEN [i \in 1..Len(line) |->
             CASE line[i] = "\\bMUST\\b" -> "Please"
               [] line[i] = "\\bmust\\b" -> "please"
               [] OTHER -> line[i]]
    ELSE line

\* The loop body of _soften_prompt: the lines that replace one line.
SoftenLine(line) ==
    IF HasPhrase(line, "override any default guidance") THEN <<>>
    ELSE IF HasPhrase(line, "do not wrap your response")
         THEN <<Line("Return a valid JSON object without markdown code fences.")>>
    ELSE <<SubMust(IF HasPhrase(line, "strict json") THEN SubStrictJson(line) ELSE line)>>

RECURSIVE SoftenLines(_)
SoftenLines(lines) ==
    IF lines = <<>> THEN <<>> ELSE SoftenLine(Head(lines)) \o SoftenLines(Tail(lines))

\* _soften_prompt
SoftenPrompt(p) == SoftenLines(p) \o <<Reminder>>

(***************************************************************************)
(* Operation dispatch of /grade.                                           *)
(***************************************************************************)
\* What a prompt builder or a validation step comes to: kind "raise" (an
\* exception leaves the handler), "bad" (the handler returns resp), "none"
\* (no prompt), or "ok" with the prompt and the temperature in tenths.
Raises == [kind |-> "raise", resp |-> NoResponse, prompt |-> <<>>, temperature |-> 0]

Rejects(code, message) == [Raises EXCEPT !.kind = "bad", !.resp = ErrorResponse(code, message)]

NoPrompt == [Raises EXCEPT !.kind = "none"]

Built(p, temp) == [Raises EXCEPT !.kind = "ok", !.prompt = p, !.temperature = temp]

\* The operations of /grade.
GradeOperations == {"semantic_similarity", "quiz_summary", "grade_rubric", "grade_text"}

\* _gateway_prompt_for_operation; operation is a one-token text or another text.
GatewayPromptForOperation(operation, payload) ==
    LET question == Or(payload["question"], Str(<<>>))
        submission == Or(payload["submission"], Or(payload["student_answer"], Str(<<>>)))
        answer_key == Or(payload["answer_key"], Str(<<>>))
        custom_instructions == Or(payload["custom_instructions"], Str(<<>>))
        rubric0 == payload["rubric_json"]
        rubric_json == Or(IF rubric0.k = "json" THEN Str(rubric0.s) ELSE rubric0, Str(<<>>))
    IN  IF ~(CanStrip(question) /\ CanStrip(submission) /\ CanStrip(answer_key)
             /\ CanStrip(custom_instructions) /\ CanStrip(rubric_json))
        THEN Raises
        ELSE IF operation = <<"semantic_similarity">>
             THEN Built(BuildSemanticSimilarityPrompt(StripOf(answer_key).s,
                                                      StripOf(submission).s), 0)
        ELSE IF operation = <<"quiz_summary">>
             THEN IF DetailsIterable(Or(payload["details"], [k |-> "list", s |-> <<>>]))
                  THEN Built(BuildQuizSummaryPrompt(payload), 0)
                  ELSE Raises
        ELSE IF operation \in {<<"grade_rubric">>, <<"grade_text">>}
             THEN Built(BuildRubricPrompt(StripOf(question).s, StripOf(submission).s,
                                          StripOf(rubric_json).s,
                                          StripOf(custom_instructions).s,
                                          StripOf(answer_key).s), 0)
        ELSE NoPrompt

\* str.lower() of a text
LowerText(s) == [i \in 1..Len(s) |-> Lower(s[i])]

\* str(body.get(name) or default).strip()
TextOr(x, default) == Strip(StrOf(Or(x, Str(default))).s)

\* quality_temp_map.get with the default for every tier.
QualityTempDefaultOnly(quality, fast, balanced, best, default) == default

\* quality_temp_map.get(quality, default), in tenths.
QualityTemp(quality, fast, balanced, best, default) ==
    CASE quality = <<"fast">> -> fast
      [] quality = <<"balanced">> -> balanced
      [] quality = <<"best">> -> best
      [] OTHER -> default

\* gateway_grade, from the body to the first upstream call.
GradeBuild(body) ==
    IF body.kind # "dict" THEN Raises
    ELSE LET operation == TextOr(body.operation, <<>>)
             quality == LowerText(TextOr(body.quality, <<"balanced">>))
         IN  IF operation = <<>> \/ body.payloadKind # "dict"
             THEN Rejects(400, "Invalid request payload")
             ELSE LET built == GatewayPromptForOperation(operation, body.payload) IN
                  IF built.kind = "raise" THEN Raises
                  ELSE IF built.kind = "none" THEN Rejects(400, "Unsupported operation")
                  ELSE Built(built.prompt, QualityTemp(quality, 2, 4, 6, 4))

(***************************************************************************)
(* UpstreamClient: call_azure_grading.                                     *)
(***************************************************************************)
\* No completion (None).
NoResult ==
    [some |-> FALSE, content |-> ArgNone, model |-> "",
     tokens |-> [prompt |-> "0", completion |-> "0", total |-> "0"]]

Completion(content, model, tokens) ==
    [some |-> TRUE, content |-> content, model |-> model, tokens |-> tokens]

\* What the network does with a request.  kind "exception": requests.post
\* raises, text the exception's message; "status": a non-success status, text
\* the status and the body; "ok": a success status with a chat-completion
\* mapping (content the first choice's message content, absent -> ""; model
\* and usage present or not, the counters of a present usage being 7, 3, 10); "malformed": a success status whose body is not
\* JSON, not a mapping, or has an empty choices list.
ReplyException(text) ==
    [kind |-> "exception", text |-> text, content |-> ArgNone, hasModel |-> FALSE,
     hasUsage |-> FALSE]

ReplyStatus(text) == [ReplyException(text) EXCEPT !.kind = "status"]

ReplyOk(content, hasModel, hasUsage) ==
    [kind |-> "ok", text |-> <<>>, content |-> content, hasModel |-> hasModel,
     hasUsage |-> hasUsage]

ReplyMalformed == [ReplyException(<<>>) EXCEPT !.kind = "malformed"]

\* str.rstrip("/")
RECURSIVE RStripSlash(_)
RStripSlash(s) ==
    IF s # <<>> /\ s[Len(s)] = "/" THEN RStripSlash(SubSeq(s, 1, Len(s) - 1)) ELSE s

\* AZURE_GRADING_ENDPOINT and AZURE_GRADING_DEPLOYMENT and AZURE_GRADING_API_KEY
AzureConfigured(e) ==
    /\ RStripSlash(e.AZURE_OPENAI_ENDPOINT) # <<>>
    /\ e.AZURE_DEPLOYMENT # <<>>
    /\ e.AZURE_OPENAI_API_KEY # <<>>

\* What call_azure_grading comes to: raised (an exception leaves it), or the
\* pair (result, error), error <<>> standing for None; sent tells whether the
\* network call was issued, site which statement of call_azure_grading the
\* call ended at: "config" (the return of line 343), "transport" (365),
\* "status" (368), "parse" (an exception of lines 370-372), "completion" (374).
CallOutcome(raised, result, error, sent, site) ==
    [raised |-> raised, result |-> result, error |-> error, sent |-> sent, site |-> site]

\* call_azure_grading without the test of the coordinates: the call goes out.
CallAzureGradingUnguarded(e, reply) ==
    IF reply.kind \in {"exception", "status"}
    THEN CallOutcome(FALSE, NoResult, <<"Azure call failed: ">> \o reply.text, TRUE, "status")
    ELSE CallOutcome(TRUE, NoResult, <<>>, TRUE, "parse")

\* call_azure_grading with the reply of the network, should it be asked.
CallAzureGrading(e, reply) ==
    IF ~AzureConfigured(e)
    THEN CallOutcome(FALSE, NoResult, <<"Azure grading config missing (AZURE_ENDPOINT, AZURE_DEPLOYMENT, AZURE_API_KEY)">>, FALSE, "config")
    ELSE CASE reply.kind = "exception" ->
                  CallOutcome(FALSE, NoResult, <<"Azure call failed: ">> \o reply.text, TRUE,
                              "transport")
           [] reply.kind = "status" ->
                  CallOutcome(FALSE, NoResult, <<"Azure call failed: ">> \o reply.text, TRUE,
                              "status")
           [] reply.kind = "malformed" -> CallOutcome(TRUE, NoResult, <<>>, TRUE, "parse")
           [] reply.kind = "ok" ->
                  CallOutcome(FALSE,
                              Completion(reply.content,
                                         IF reply.hasModel THEN "gpt" ELSE "deployment",
                                         IF reply.hasUsage
                                         THEN [prompt |-> "7", completion |-> "3", total |-> "10"]
                                         ELSE [prompt |-> "0", completion |-> "0", total |-> "0"]),
                              <<>>, TRUE, "completion")

\* HasFilterMarker without lower().
HasFilterMarkerCaseSensitive(error) ==
    \E i \in 1..Len(error) : error[i] \in {"content_filter", "responsibleaipolicyviolation"}

\* "content_filter" in llm_error.lower() or
\* "responsibleaipolicyviolation" in llm_error.lower()
HasFilterMarker(error) ==
    \E i \in 1..Len(error) :
        Lower(error[i]) \in {"content_filter", "responsibleaipolicyviolation"}

\* One invocation as the pipeline records it: the arguments of
\* call_azure_grading and what the call came to.
Invocation(p, temp, maxTokens, out) ==
    [prompt |-> p, temperature |-> temp, top_p |-> 9, max_tokens |-> maxTokens,
     sent |-> out.sent, raised |-> out.raised, result |-> out.result, error |-> out.error,
     site |-> out.site]

(***************************************************************************)
(* The other endpoints, from the body to the first upstream call.          *)
(***************************************************************************)
\* _build_generate_key_prompt
BuildGenerateKeyPrompt(question_name, question_text) ==
    << Line("You are an instructor. Write a concise model answer key ... Keep it under 200 words."),
       <<>>,
       <<"Question: ">> \o question_name,
       <<"Question text: ">> \o question_text >>

\* generate_key: the body's own members are read, not a payload.
GenerateKeyBuild(body) ==
    IF body.kind # "dict" THEN Raises
    ELSE LET question_name ==
                 Or(body.top["question"], Or(body.top["question_name"], Str(<<>>)))
             question_text ==
                 Or(body.top["question_text"], Or(body.top["questionText"], Str(<<>>)))
         IN  IF Strip(StrOf(question_name).s) = <<>> /\ Strip(StrOf(question_text).s) = <<>>
             THEN Rejects(400, "Missing question or question_text")
             ELSE IF ~(CanStrip(Or(question_name, Str(<<>>)))
                       /\ CanStrip(Or(question_text, Str(<<>>))))
                  THEN Raises
             ELSE Built(BuildGenerateKeyPrompt(StripOf(question_name).s,
                                               StripOf(question_text).s), 2)

\* payload.get(name, '').strip(): defined when CanStripField holds.
CanStripField(payload, name) == CanStrip(Get(payload, name, Str(<<>>)))

StrippedField(payload, name) == Strip(Get(payload, name, Str(<<>>)).s)

\* A token that stands for n characters of running text.
Run(n) == "<" \o ToString(n) \o " chars>"

\* The lengths of the runs told apart: those around the two ceilings.
RunLens == (4997..5001) \cup (149997..150001)

IsRun(tok) == \E n \in RunLens : tok = Run(n)

\* len() of the text of a token.
TokLen(tok) == IF IsRun(tok) THEN CHOOSE n \in RunLens : tok = Run(n) ELSE Len(tok)

\* len(text)
RECURSIVE TextLen(_)
TextLen(text) == IF text = <<>> THEN 0 ELSE TokLen(Head(text)) + TextLen(Tail(text))

\* text[:n]
RECURSIVE Prefix(_, _)
Prefix(text, n) ==
    IF text = <<>> \/ n <= 0 THEN <<>>
    ELSE IF TokLen(Head(text)) <= n
         THEN <<Head(text)>> \o Prefix(Tail(text), n - TokLen(Head(text)))
    ELSE IF IsRun(Head(text)) THEN <<Run(n)>>
    ELSE <<SubSeq(Head(text), 1, n)>>

\* max_length of _build_topic_extraction_prompt
max_length == 150000

\* max_content_length of _build_question_generation_prompt
max_content_length == 5000

\* The content as _build_topic_extraction_prompt embeds it.
LimitedContent(content) ==
    IF TextLen(content) > max_length THEN Prefix(content, max_length) ELSE content

\* The topic_content as _build_question_generation_prompt embeds it.
LimitedTopicContent(topic_content) ==
    IF TextLen(topic_content) > max_content_length
    THEN Prefix(topic_content, max_content_length) \o <<"...">>
    ELSE topic_content

\* _build_topic_extraction_prompt
BuildTopicExtractionPrompt(content) ==
    << Line("You are an educational content analyzer. Extract meaningful topics from the content structure."),
       <<>>,
       Line("CONTENT TO ANALYZE:"), Line("---"), LimitedContent(content), Line("---"),
       <<>>,
       Line("INSTRUCTIONS: ... FORMAT YOUR RESPONSE AS JSON: { topics: [...] } CRITICAL RULES: ..."),
       <<"- Questions will be generated ABOUT the topic title, so it ", "must",
         " be descriptive of the SUBJECT MATTER">>,
       Line("- Return ONLY valid JSON, no additional text") >>

\* analyze_topics
AnalyzeTopicsBuild(body) ==
    IF body.kind # "dict" \/ body.payloadKind # "dict" THEN Raises
    ELSE IF ~CanStripField(body.payload, "content") THEN Raises
    ELSE LET quality == LowerText(TextOr(body.quality, <<"best">>))
             content == StrippedField(body.payload, "content")
         IN  IF content = <<>> THEN Rejects(400, "Missing content")
             ELSE Built(BuildTopicExtractionPrompt(content), QualityTemp(quality, 2, 3, 3, 3))

\* A label -> weight mapping is a sequence of <<label, weight>> in declaration
\* order.  The defaults of generate_questions:
DefaultDifficultyDist == <<<<"easy", 20>>, <<"medium", 60>>, <<"hard", 20>>>>

DefaultBloomsDist ==
    <<<<"remember", 20>>, <<"understand", 25>>, <<"apply", 25>>, <<"analyze", 15>>,
      <<"evaluate", 10>>, <<"create", 5>>>>

\* The sum of the first n weights.
RECURSIVE Cumulative(_, _)
Cumulative(dist, n) == IF n = 0 THEN 0 ELSE Cumulative(dist, n - 1) + dist[n][2]

\* _select_from_distribution with the draw rand of random.randint(1, 100).  On
\* the empty mapping the fallback list(distribution.keys())[0] raises IndexError.
SelectRaises(dist) == dist = <<>>

\* The loop over distribution.items() from entry i on, cumulative the sum so
\* far; after the last entry the fallback, the first key.
RECURSIVE SelectWalk(_, _, _, _)
SelectWalk(dist, rand, i, cumulative) ==
    IF i > Len(dist) THEN dist[1][1]
    ELSE IF rand <= cumulative + dist[i][2] THEN dist[i][1]
    ELSE SelectWalk(dist, rand, i + 1, cumulative + dist[i][2])

\* The walk that returns the last declared label when no entry is reached.
SelectFromDistributionLast(dist, rand) ==
    IF \E n \in 1..Len(dist) : rand <= Cumulative(dist, n)
    THEN SelectWalk(dist, rand, 1, 0) ELSE dist[Len(dist)][1]

SelectFromDistribution(dist, rand) == SelectWalk(dist, rand, 1, 0)

\* The type names of the question specifications.
TypeName(qtype) ==
    CASE qtype = "multichoice" -> "Multiple Choice"
      [] qtype = "truefalse" -> "True/False"
      [] qtype = "shortanswer" -> "Short Answer (question MUST include a hint, answer MUST be ONE WORD only)"
      [] qtype = "essay" -> "Essay (include model answer and grading rubric in generalfeedback)"
      [] qtype = "matching" -> "Matching"
      [] OTHER -> "Multiple Choice"

\* The question specification lines; draws[i] is the pair of random draws
\* (difficulty, cognitive level) of slot i.
SpecLines(question_types, difficulty_dist, blooms_dist, draws) ==
    [i \in 1..Len(question_types) |->
        <<TypeName(question_types[i]), " (Difficulty: ",
          SelectFromDistribution(difficulty_dist, draws[i][1]), ", Bloom's: ",
          SelectFromDistribution(blooms_dist, draws[i][2]), ")">>]

\* _build_question_generation_prompt
BuildQuestionGenerationPrompt(topic_title, topic_content, question_types, difficulty_dist, blooms_dist, is_regeneration, old_question_text, draws) ==
    << <<"Topic: ">> \o topic_title, Line("Content:"), LimitedTopicContent(topic_content), <<>> >>
    \o (IF is_regeneration /\ old_question_text # <<>>
        THEN << Line("**REGENERATION REQUEST**"),
                <<"You ", "MUST", " generate a COMPLETELY DIFFERENT question. DO NOT use the same wording, structure, or approach.">>,
                Line("OLD QUESTION TO REPLACE (DO NOT REGENERATE THIS):"),
                old_question_text,
                Line("Generate a NEW question that tests the SAME topic but uses: ...") >>
        ELSE <<>>)
    \o << Line("DIFFICULTY LEVELS: EASY ... MEDIUM ... HARD ..."), <<>> >>
    \o SpecLines(question_types, difficulty_dist, blooms_dist, draws)
    \o << <<>>,
          Line("Return a JSON array with the following structure: [{ questiontext, questiontype, difficulty, blooms_level, answers, generalfeedback, ai_reasoning }]"),
          <<>>,
          Line("CRITICAL: Return ONLY valid JSON array, no explanatory text, no markdown code blocks, no additional content.") >>
    \o (IF \E i \in 1..Len(question_types) : question_types[i] = "essay"
        THEN << <<>>,
                <<"Note for ESSAY questions: generalfeedback ", "MUST",
                  " include model answer (150+ words), key points, and grading criteria.">> >>
        ELSE <<>>)

\* payload.get('question_types', ['multichoice'])
QuestionTypes(payload) == Get(payload, "question_types", [k |-> "list", s |-> <<"multichoice">>])

\* payload.get('difficulty_distribution', {...}): absent, or the empty mapping.
DifficultyDist(payload) ==
    IF payload["difficulty_distribution"].k = "absent" THEN DefaultDifficultyDist ELSE <<>>

\* generate_questions; draws are the random draws of the specification lines.
GenerateQuestionsBuild(body, draws) ==
    IF body.kind # "dict" \/ body.payloadKind # "dict" THEN Raises
    ELSE IF ~(CanStripField(body.payload, "topic_title")
              /\ CanStripField(body.payload, "topic_content")) THEN Raises
    ELSE IF QuestionTypes(body.payload).k # "list" THEN Raises
    ELSE LET quality == LowerText(TextOr(body.quality, <<"balanced">>))
             topic_title == StrippedField(body.payload, "topic_title")
             question_types == QuestionTypes(body.payload).s
             is_regeneration == Truthy(body.payload["is_regeneration"])
             old_question_text == Get(body.payload, "old_question_text", Str(<<>>))
         IN  IF topic_title = <<>> THEN Rejects(400, "Missing topic_title")
             ELSE IF is_regeneration /\ old_question_text.k # "str" /\ Truthy(old_question_text)
                  THEN Raises
             ELSE IF question_types # <<>> /\ SelectRaises(DifficultyDist(body.payload))
                  THEN Raises
             ELSE Built(BuildQuestionGenerationPrompt(
                            topic_title, StrippedField(body.payload, "topic_content"),
                            question_types, DifficultyDist(body.payload), DefaultBloomsDist,
                            is_regeneration, old_question_text.s, draws),
                        IF is_regeneration THEN 9 ELSE QualityTemp(quality, 5, 7, 7, 7))

\* _build_question_refinement_prompt
BuildQuestionRefinementPrompt(existing_question, topic_title, question_type, difficulty) ==
    << Line("You are an expert educator. Regenerate the following question to make it better."),
       <<>>,
       <<"Topic: ">> \o topic_title,
       <<"Question Type: ">> \o question_type,
       <<"Difficulty: ">> \o difficulty,
       <<>>,
       Line("EXISTING QUESTION:"), existing_question, <<>>,
       Line("INSTRUCTIONS: ... Return JSON format: { ... }"),
       <<>>,
       Line("Return ONLY valid JSON, no additional text.") >>

\* refine_question
RefineQuestionBuild(body) ==
    IF body.kind # "dict" \/ body.payloadKind # "dict" THEN Raises
    ELSE IF ~(CanStripField(body.payload, "existing_question")
              /\ CanStripField(body.payload, "topic_title")
              /\ CanStripField(body.payload, "topic_content")) THEN Raises
    ELSE LET quality == LowerText(TextOr(body.quality, <<"balanced">>))
             existing_question == StrippedField(body.payload, "existing_question")
             topic_title == StrippedField(body.payload, "topic_title")
             question_type == Get(body.payload, "question_type", Str(<<"multichoice">>))
             difficulty == Get(body.payload, "difficulty", Str(<<"medium">>))
         IN  IF existing_question = <<>> \/ topic_title = <<>>
             THEN Rejects(400, "Missing existing_question or topic_title")
             ELSE Built(BuildQuestionRefinementPrompt(existing_question, topic_title,
                                                      StrOf(question_type).s,
                                                      StrOf(difficulty).s),
                        QualityTemp(quality, 7, 9, 9, 9))

\* _build_distractor_generation_prompt
BuildDistractorGenerationPrompt(question_text, correct_answer, difficulty, num_distractors) ==
    << <<"Generate ">> \o num_distractors
          \o <<" plausible wrong answers (distractors) for this multiple choice question.">>,
       <<>>,
       <<"Question: ">> \o question_text,
       <<"Correct Answer: ">> \o correct_answer,
       <<"Difficulty: ">> \o difficulty,
       <<>>,
       Line("INSTRUCTIONS: ... Return JSON format: { distractors: [...] }"),
       <<>>,
       Line("Return ONLY valid JSON, no additional text.") >>

\* generate_distractors
GenerateDistractorsBuild(body) ==
    IF body.kind # "dict" \/ body.payloadKind # "dict" THEN Raises
    ELSE IF ~(CanStripField(body.payload, "question_text")
              /\ CanStripField(body.payload, "correct_answer")) THEN Raises
    ELSE LET quality == LowerText(TextOr(body.quality, <<"balanced">>))
             question_text == StrippedField(body.payload, "question_text")
             correct_answer == StrippedField(body.payload, "correct_answer")
             difficulty == Get(body.payload, "difficulty", Str(<<"medium">>))
             num_distractors == Get(body.payload, "num_distractors", Num("3"))
         IN  IF question_text = <<>> \/ correct_answer = <<>>
             THEN Rejects(400, "Missing question_text or correct_answer")
             ELSE Built(BuildDistractorGenerationPrompt(question_text, correct_answer,
                                                        StrOf(difficulty).s,
                                                        StrOf(num_distractors).s),
                        QualityTemp(quality, 5, 7, 7, 7))

(***************************************************************************)
(* ResponseNormalizer: the 200 responses.                                  *)
(***************************************************************************)
EmptyList == PyList(<<>>)

\* A str of the completion keeps its quotes, as the parser reads it.
EmptyStr == PyStr("\"\"")

OkResponse(provider, content, usage) ==
    [status |-> 200, error |-> "", details |-> <<>>, provider |-> provider,
     content |-> content, usage |-> usage]

\* A str value given by its text (generate_key's content).
PyText(toks) == [t |-> "text", v |-> "", keys |-> toks, items |-> <<>>]

\* The dict with the default of each key, whatever parsed has.
NormalizedDefaults(p, ks, defaults) == PyDict(ks, defaults)

\* The dict with, for each key, parsed.get(key, default).
Normalized(p, ks, defaults) ==
    PyDict(ks, [i \in 1..Len(ks) |-> DictGet(p, ks[i], defaults[i])])

\* max_score of grade_text with 0 for its default.
GradeTextMaxScoreDefaultZero == PyNum("0")

\* parsed.get("max_score", 100)
GradeTextMaxScoreDefault == PyNum("100")

\* gateway_grade: the normalized content of an operation.
GradeContent(operation, p) ==
    IF operation = <<"semantic_similarity">>
    THEN Normalized(p, <<"matched_concepts", "partially_matched_concepts",
                         "missing_concepts", "reasoning">>,
                    <<EmptyList, EmptyList, EmptyList, EmptyStr>>)
    ELSE IF operation = <<"quiz_summary">>
    THEN Normalized(p, <<"overall_feedback", "strengths", "improvements">>,
                    <<EmptyStr, EmptyList, EmptyList>>)
    ELSE IF operation = <<"grade_rubric">>
    THEN Normalized(p, <<"criteria", "feedback">>, <<EmptyList, EmptyStr>>)
    ELSE Normalized(p, <<"score", "max_score", "feedback", "criteria">>,
                    <<PyNum("0"), GradeTextMaxScoreDefault, EmptyStr, EmptyList>>)

\* GradeProvider with the last two kinds exchanged.
GradeProviderSwapped(operation) ==
    IF operation = <<"semantic_similarity">> THEN "hub:semantic"
    ELSE IF operation = <<"quiz_summary">> THEN "hub:summary"
    ELSE IF operation = <<"grade_rubric">> THEN "hub:text"
    ELSE "hub:rubric"

\* gateway_grade: f"hub:{provider}"
GradeProvider(operation) ==
    IF operation = <<"semantic_similarity">> THEN "hub:semantic"
    ELSE IF operation = <<"quiz_summary">> THEN "hub:summary"
    ELSE IF operation = <<"grade_rubric">> THEN "hub:rubric"
    ELSE "hub:text"

\* str(x) of a value of the completion.
PyStrOf(x) ==
    CASE x.t = "str" -> x
      [] x.t = "none" -> PyText(<<"None">>)
      [] OTHER -> PyText(Repr(x))

\* A member of the request as a value of the response.
PyOfField(x) ==
    CASE x.k = "str" -> PyText(x.s)
      [] x.k = "num" -> PyNum(x.s[1])
      [] x.k = "null" -> PyNone
      [] OTHER -> PyText(x.s)

\* re.sub(r"^<fence>[a-z]*\s*", "", content, flags=re.IGNORECASE); a word is
\* one token, the tokens of letters being these.
Words == {"json", "JSON", "py", "Answer"}

SubLeadingFenceAnyTag(content) ==
    IF content # <<>> /\ Head(content) = Fence
    THEN LET r1 == Tail(content) IN
         LStrip(IF r1 # <<>> /\ Head(r1) \in Words THEN Tail(r1) ELSE r1)
    ELSE content

\* generate_key: the content of the 200 response.
GenerateKeyContent(result) ==
    LET content == IF result.content.kind = "text" THEN Strip(result.content.toks) ELSE <<>>
    IN  PyText(SubTrailingFence(SubLeadingFenceAnyTag(content)))

\* refine_question: content.question
RefineQuestionContent(payload, p) ==
    LET question_type == Get(payload, "question_type", Str(<<"multichoice">>))
        difficulty == Get(payload, "difficulty", Str(<<"medium">>))
    IN  PyDict(<<"question">>,
               << PyDict(<<"questiontext", "questiontype", "difficulty", "blooms_level",
                           "answers", "generalfeedback">>,
                         << DictGet(p, "questiontext", EmptyStr),
                            PyOfField(question_type),
                            DictGet(p, "difficulty", PyOfField(difficulty)),
                            DictGet(p, "blooms_level", PyStr("\"understand\"")),
                            DictGet(p, "answers", EmptyList),
                            PyStrOf(DictGet(p, "generalfeedback", EmptyStr)) >>) >>)

\* generate_questions: the entry made of element qdata at array index i.
QuestionEntry(question_types, i, qdata) ==
    PyDict(<<"questiontext", "questiontype", "difficulty", "blooms_level", "answers",
             "generalfeedback", "ai_reasoning">>,
           << DictGet(qdata, "questiontext", EmptyStr),
              PyText(<<IF i <= Len(question_types) THEN question_types[i] ELSE "multichoice">>),
              DictGet(qdata, "difficulty", PyStr("\"medium\"")),
              DictGet(qdata, "blooms_level", PyStr("\"understand\"")),
              DictGet(qdata, "answers", EmptyList),
              PyStrOf(DictGet(qdata, "generalfeedback", EmptyStr)),
              DictGet(qdata, "ai_reasoning", EmptyStr) >>)

\* The entries of elements i.. of the first n elements of the array.
RECURSIVE QuestionEntries(_, _, _, _)
QuestionEntries(question_types, elems, n, i) ==
    IF i > n \/ i > Len(elems) THEN <<>>
    ELSE (IF IsDict(elems[i]) THEN <<QuestionEntry(question_types, i, elems[i])>> ELSE <<>>)
         \o QuestionEntries(question_types, elems, n, i + 1)

\* The integer a number member of the request stands for.
IntOf(digits) ==
    CASE digits = "-1" -> 0 - 1
      [] digits = "0" -> 0
      [] digits = "1" -> 1
      [] digits = "2" -> 2
      [] digits = "5" -> 5
      [] digits = "10" -> 10
      [] OTHER -> 100

\* payload.get('num_questions', len(question_types)): an integer, or None for
\* a member that is null.
NumQuestions(payload) ==
    LET member == payload["num_questions"] IN
    CASE member.k = "absent" -> [none |-> FALSE, n |-> Len(QuestionTypes(payload).s)]
      [] member.k = "num" -> [none |-> FALSE, n |-> IntOf(member.s[1])]
      [] OTHER -> [none |-> TRUE, n |-> 0]

\* parsed[:num_questions] raises TypeError unless num_questions is an integer
\* or None.
CanSlice(payload) == payload["num_questions"].k \in {"absent", "num", "null"}

\* The number of elements of xs[:num] for a list of len elements: all of them
\* for None, the first num for a count, all but the last -num for a negative one.
SliceEnd(num, len) ==
    IF num.none THEN len
    ELSE IF num.n >= 0 THEN (IF num.n < len THEN num.n ELSE len)
    ELSE (IF len + num.n > 0 THEN len + num.n ELSE 0)

\* generate_questions: content
GenerateQuestionsContent(payload, p, tokens) ==
    PyDict(<<"questions", "tokens">>,
           << PyList(QuestionEntries(QuestionTypes(payload).s, p.items,
                                     SliceEnd(NumQuestions(payload), Len(p.items)), 1)),
              PyDict(<<"prompt", "completion", "total">>,
                     <<PyNum(tokens.prompt), PyNum(tokens.completion), PyNum(tokens.total)>>) >>)

(***************************************************************************)
(* The environments, requests and upstream replies the model takes.        *)
(***************************************************************************)
EnvOf(keys, key, safe, debug, endpoint) ==
    [GATEWAY_API_KEYS |-> keys, GATEWAY_API_KEY |-> key, SAFE_PROMPTS |-> safe,
     DEBUG_AZURE_ERRORS |-> debug, AZURE_OPENAI_ENDPOINT |-> endpoint,
     AZURE_DEPLOYMENT |-> <<"gpt">>, AZURE_OPENAI_API_KEY |-> <<"secret">>]

Envs ==
    {EnvOf(keys, <<>>, safe, debug, endpoint) :
        keys \in {<<>>, <<"k1", ",", " ", "k2">>},
        safe \in {<<>>, <<"1">>},
        debug \in {<<>>, <<" ", "yes">>},
        endpoint \in {<<"/">>, <<"https://hub", "/">>}}
    \cup {[EnvOf(<<"k1">>, <<>>, <<>>, <<>>, <<"https://hub">>) EXCEPT !.AZURE_DEPLOYMENT = <<>>],
          [EnvOf(<<"k1">>, <<>>, <<>>, <<>>, <<"https://hub">>) EXCEPT !.AZURE_OPENAI_API_KEY = <<>>]}

Headers == {NoHeader, Header(<<"Bearer", " ", "k1">>), Header(<<"Bearer", " ", "bad">>)}

\* The top-level members of a body.
Top(operation, quality, fields) ==
    [operation |-> operation, quality |-> quality, fields |-> fields]

\* The members of a mapping without members.
NoFields == [question |-> Absent]

Q == Str(<<"What is a cell?">>)

A == Str(<<"The unit of life">>)

\* Payloads of /grade.
GradePayloads ==
    { NoFields,
      [question |-> Q, submission |-> A, answer_key |-> A],
      [question |-> Q, student_answer |-> A, custom_instructions |-> Str(<<"Be strict">>),
       rubric_json |-> [k |-> "json", s |-> <<"{", "}">>]],
      [question |-> Num("5")],
      [question |-> Null, submission |-> A, answer_key |-> Null],
      [quiz_name |-> Q, score |-> Num("1"), max_score |-> Num("10"),
       details |-> [k |-> "list", s |-> <<"Q?">>]],
      [details |-> Num("5")] }

GradeBodies ==
    {Body(Top(op, Absent, NoFields), "dict", p) :
        op \in {Absent, Str(<<" ">>), Num("5"), Str(<<"foo">>), Str(<<"grade_text">>),
                Str(<<" ", "grade_rubric">>), Str(<<"semantic_similarity">>),
                Str(<<"quiz_summary">>)},
        p \in GradePayloads}
    \cup {Body(Top(Str(<<"grade_text">>), q, NoFields), "dict", [question |-> Q, submission |-> A]) :
            q \in {Str(<<"fast">>), Str(<<" ", "BEST">>), Str(<<"bogus">>), Num("5")}}
    \cup {Body(Top(op, Absent, NoFields), "other", NoFields) : op \in {Absent, Str(<<"grade_text">>)}}
    \cup {NonMappingBody}

GenerateKeyBodies ==
    {Body(Top(Absent, Absent, fields), "dict", NoFields) :
        fields \in { NoFields,
                     [question |-> Q],
                     [question_name |-> Q, questionText |-> A],
                     [question_text |-> Str(<<" ">>)],
                     [question |-> Null, question_text |-> Q],
                     [question |-> Num("5")] }}
    \cup {NonMappingBody}

\* Texts at a ceiling and just above it.
LongTexts(ceiling) == {<<Run(ceiling)>>, <<Run(ceiling + 1)>>, <<"ab", Run(ceiling - 1)>>}

AnalyzeTopicsBodies ==
    {Body(Top(Absent, q, NoFields), "dict", p) :
        q \in {Absent, Str(<<"fast">>)},
        p \in {NoFields, [content |-> Q], [content |-> Str(<<" ">>)], [content |-> Null]}
               \cup {[content |-> Str(c)] : c \in LongTexts(max_length)}}
    \cup {Body(Top(Absent, Absent, NoFields), "other", NoFields), NonMappingBody}

Types(s) == [k |-> "list", s |-> s]

GenerateQuestionsBodies ==
    {Body(Top(Absent, Absent, NoFields), "dict", p) :
        p \in { NoFields,
                [topic_title |-> Q],
                [topic_title |-> Q, topic_content |-> A,
                 question_types |-> Types(<<"essay", "truefalse">>)],
                [topic_content |-> Null],
                [topic_title |-> Q, topic_content |-> Null],
                [topic_title |-> Q, question_types |-> Num("5")],
                [topic_title |-> Q, difficulty_distribution |-> [k |-> "json", s |-> <<"{", "}">>]],
                [topic_title |-> Q, question_types |-> Types(<<>>),
                 difficulty_distribution |-> [k |-> "json", s |-> <<"{", "}">>]],
                [topic_title |-> Q, is_regeneration |-> Num("1"), old_question_text |-> A],
                [topic_title |-> Q, question_types |-> Types(<<"multichoice", "essay">>),
                 num_questions |-> Num("1")],
                [topic_title |-> Q, num_questions |-> Str(<<"2">>)] }
              \cup {[topic_title |-> Q, question_types |-> Types(<<"essay">>),
                     num_questions |-> n] : n \in {Null, Num("-1"), Num("0"), Num("5")}}}
    \cup {Body(Top(Absent, Absent, NoFields), "dict", [topic_title |-> Q, topic_content |-> Str(c)]) :
            c \in LongTexts(max_content_length)}
    \cup {Body(Top(Absent, Str(<<"fast">>), NoFields), "dict", [topic_title |-> Q]),
          Body(Top(Absent, Str(<<"fast">>), NoFields), "dict",
               [topic_title |-> Q, is_regeneration |-> Num("1")]),
          Body(Top(Absent, Absent, NoFields), "other", NoFields), NonMappingBody}

RefineQuestionBodies ==
    {Body(Top(Absent, q, NoFields), "dict", p) :
        q \in {Absent, Str(<<"fast">>)},
        p \in { NoFields,
                [existing_question |-> Q, topic_title |-> A],
                [existing_question |-> Q, topic_title |-> A, difficulty |-> Str(<<"hard">>),
                 question_type |-> Str(<<"essay">>)],
                [existing_question |-> Null, topic_title |-> A],
                [existing_question |-> Q, topic_title |-> A, topic_content |-> Null] }}
    \cup {NonMappingBody}

GenerateDistractorsBodies ==
    {Body(Top(Absent, q, NoFields), "dict", p) :
        q \in {Absent, Str(<<"fast">>)},
        p \in { NoFields,
                [question_text |-> Q, correct_answer |-> A],
                [question_text |-> Q, correct_answer |-> A, num_distractors |-> Num("5")],
                [question_text |-> Num("5"), correct_answer |-> A] }}
    \cup {NonMappingBody}

Request(endpoint, header, body) == [endpoint |-> endpoint, header |-> header, body |-> body]

BodiesOf(endpoint) ==
    CASE endpoint = "/grade" -> GradeBodies
      [] endpoint = "/generate_key" -> GenerateKeyBodies
      [] endpoint = "/analyze_topics" -> AnalyzeTopicsBodies
      [] endpoint = "/generate_questions" -> GenerateQuestionsBodies
      [] endpoint = "/refine_question" -> RefineQuestionBodies
      [] endpoint = "/generate_distractors" -> GenerateDistractorsBodies

\* The keys a handler reads from the parsed completion.
GradeTextKeys == <<"score", "max_score", "feedback", "criteria">>

ReadKeys(endpoint) ==
    CASE endpoint = "/grade" ->
             {"matched_concepts", "partially_matched_concepts", "missing_concepts",
              "reasoning", "overall_feedback", "strengths", "improvements", "criteria",
              "feedback", "score", "max_score"}
      [] endpoint = "/analyze_topics" -> {"topics"}
      [] endpoint = "/refine_question" ->
             {"questiontext", "difficulty", "blooms_level", "answers", "generalfeedback"}
      [] endpoint = "/generate_distractors" -> {"distractors"}
      [] OTHER -> {}

\* The JSON text of a member: its name and a value.
MemberText(key) ==
    <<key>> \o (CASE key \in {"score"} -> <<"1">>
                  [] key \in {"max_score"} -> <<"10">>
                  [] key \in {"difficulty"} -> <<"\"hard\"">>
                  [] key \in {"generalfeedback"} -> <<"[", "]">>
                  [] key \in {"reasoning", "overall_feedback", "feedback", "questiontext",
                              "blooms_level", "ai_reasoning", "extra"} -> <<"\"s\"">>
                  [] key \in {"questiontype"} -> <<"\"hard\"">>
                  [] OTHER -> <<"[", "\"s\"", "]">>)

\* The JSON text of the object with the members of keys, in this order.
RECURSIVE MembersText(_)
MembersText(keys) ==
    IF keys = <<>> THEN <<>>
    ELSE MemberText(Head(keys)) \o (IF Len(keys) > 1 THEN <<",">> ELSE <<>>)
         \o MembersText(Tail(keys))

ObjectText(keys) == <<"{">> \o MembersText(keys) \o <<"}">>

\* The completions: none, a mapping, and texts.
CompletionContents(endpoint) ==
    {ArgNone, ArgDict(PyDict(<<"score">>, <<PyNum("1")>>)), ArgText(<<>>),
     ArgText(<<"Sorry, no.">>), ArgText(<<"1">>), ArgText(<<"[", "]">>),
     ArgText(ObjectText(<<>>)), ArgText(ObjectText(<<"extra">>)),
     ArgText(<<Fence, "json", " ">> \o ObjectText(GradeTextKeys) \o <<" ", Fence>>),
     ArgText(<<Fence, "Answer", " ", "- point", Fence>>),
     ArgText(<<"Here: ">> \o ObjectText(<<"feedback">>) \o <<" done">>)}
    \cup {ArgText(ObjectText(<<key>>)) : key \in ReadKeys(endpoint)}
    \cup {ArgText(ObjectText(<<"score", "max_score", "feedback", "criteria", "reasoning",
                               "matched_concepts", "partially_matched_concepts",
                               "missing_concepts", "overall_feedback", "strengths",
                               "improvements", "topics", "distractors", "questiontext",
                               "difficulty", "blooms_level", "answers",
                               "generalfeedback">>))}
    \cup (IF endpoint = "/generate_questions"
          THEN {ArgText(<<"[">> \o ObjectText(<<"questiontext">>) \o <<",", "\"s\"", ",">>
                        \o ObjectText(<<>>) \o <<"]">>),
                ArgText(<<"[">> \o ObjectText(<<"questiontype">>) \o <<",">>
                        \o ObjectText(<<"questiontext", "questiontype">>) \o <<"]">>),
                ArgText(<<"[">> \o ObjectText(<<"questiontext", "difficulty", "blooms_level",
                                                "answers", "generalfeedback",
                                                "ai_reasoning">>) \o <<"]">>)}
          ELSE {})

\* What the network may do with a call of the endpoint's handler.
UpstreamReplies(endpoint) ==
    {ReplyException(<<"timed out">>), ReplyException(<<"Content_Filter">>),
     ReplyStatus(<<"500 ", "oops">>), ReplyStatus(<<"400 ", "content_filter">>),
     ReplyStatus(<<"400 ", "ResponsibleAIPolicyViolation">>), ReplyMalformed}
    \cup {ReplyOk(c, b, b) : c \in CompletionContents(endpoint), b \in BOOLEAN}

(***************************************************************************)
(* GatewayPipeline: the handlers, one request.                             *)
(***************************************************************************)
GatedEndpoints ==
    {"/grade", "/generate_key", "/analyze_topics", "/generate_questions",
     "/refine_question", "/generate_distractors"}

\* SAFE_PROMPTS, and the debug switch read by gateway_grade:
\* os.getenv(...).strip().lower() in ("1", "true", "yes")
Switch(value) == LowerText(Strip(value)) \in {<<"1">>, <<"true">>, <<"yes">>}

SafePrompts(e) == Switch(e.SAFE_PROMPTS)

DebugAzureErrors(e) == Switch(e.DEBUG_AZURE_ERRORS)

\* max_tokens of each handler's upstream calls.
MaxTokens(endpoint) ==
    CASE endpoint = "/grade" -> 1800
      [] endpoint = "/generate_key" -> 500
      [] endpoint = "/analyze_topics" -> 8000
      [] endpoint = "/generate_questions" -> 3000
      [] endpoint = "/refine_question" -> 1500
      [] endpoint = "/generate_distractors" -> 800

\* The error member of each handler's 502 on an upstream failure.
UnavailableMessage(endpoint) ==
    CASE endpoint = "/grade" -> "AI grading is temporarily unavailable"
      [] endpoint = "/generate_key" -> "AI key generation is temporarily unavailable"
      [] endpoint = "/analyze_topics" -> "AI topic analysis is temporarily unavailable"
      [] endpoint = "/generate_questions" -> "AI question generation is temporarily unavailable"
      [] endpoint = "/refine_question" -> "AI question refinement is temporarily unavailable"
      [] endpoint = "/generate_distractors" -> "AI distractor generation is temporarily unavailable"

\* UnavailableResponse with the failure text sent on every endpoint, switch
\* or no switch.
UnavailableResponseVerbose(e, endpoint, error) ==
    [ErrorResponse(502, UnavailableMessage(endpoint)) EXCEPT !.details = error]

\* The handler's 502 on an upstream failure; only gateway_grade reads the
\* debug switch.
UnavailableResponse(e, endpoint, error) ==
    IF endpoint = "/grade" /\ DebugAzureErrors(e)
    THEN [ErrorResponse(502, UnavailableMessage(endpoint)) EXCEPT !.details = error]
    ELSE ErrorResponse(502, UnavailableMessage(endpoint))

\* Flask's answer when an exception leaves the handler.
CrashResponse == ErrorResponse(500, "Internal Server Error")

\* The draws of random.randint(1, 100) the model takes.
DrawPoints == {1, 50, 100}

\* The validation and prompt building of the request's handler.
BuildFor(r, draws) ==
    CASE r.endpoint = "/grade" -> GradeBuild(r.body)
      [] r.endpoint = "/generate_key" -> GenerateKeyBuild(r.body)
      [] r.endpoint = "/analyze_topics" -> AnalyzeTopicsBuild(r.body)
      [] r.endpoint = "/generate_questions" -> GenerateQuestionsBuild(r.body, draws)
      [] r.endpoint = "/refine_question" -> RefineQuestionBuild(r.body)
      [] r.endpoint = "/generate_distractors" -> GenerateDistractorsBuild(r.body)

\* The number of question slots the handler draws for.
Slots(r) ==
    IF r.endpoint = "/generate_questions" /\ r.body.kind = "dict"
       /\ r.body.payloadKind = "dict" /\ QuestionTypes(r.body.payload).k = "list"
    THEN Len(QuestionTypes(r.body.payload).s) ELSE 0

\* The handler's first step: _gateway_require_auth.
Authorize ==
    /\ pc = "Authorizing"
    /\ LET auth == GatewayRequireAuth(env, req.header) IN
       IF auth.ok
       THEN /\ pc' = "BuildingPrompt"
            /\ UNCHANGED response
       ELSE /\ pc' = "AuthFailed"
            /\ response' = auth.resp
    /\ UNCHANGED <<env, req, prompt, temperature, calls, llm_result, llm_error, parsed>>

\* From the body to the prompt and the temperature: the request is rejected,
\* raises, or is ready for the upstream call.
BuildPrompt ==
    /\ pc = "BuildingPrompt"
    /\ \E draws \in [1..Slots(req) -> DrawPoints \X DrawPoints] :
         LET built == BuildFor(req, draws) IN
         CASE built.kind = "raise" ->
                  /\ pc' = "Crashed"
                  /\ response' = CrashResponse
                  /\ UNCHANGED <<prompt, temperature>>
           [] built.kind = "bad" ->
                  /\ pc' = "BadRequest"
                  /\ response' = built.resp
                  /\ UNCHANGED <<prompt, temperature>>
           [] built.kind = "ok" ->
                  /\ pc' = "Calling"
                  /\ prompt' = built.prompt
                  /\ temperature' = built.temperature
                  /\ UNCHANGED response
    /\ UNCHANGED <<env, req, calls, llm_result, llm_error, parsed>>

\* The handler after an invocation of call_azure_grading came to out; retry
\* tells whether a softened retry may follow (the first call of gateway_grade).
AfterCall(out, retry) ==
    IF out.raised
    THEN /\ pc' = "Crashed"
         /\ response' = CrashResponse
         /\ UNCHANGED <<llm_result, llm_error>>
    ELSE /\ llm_result' = out.result
         /\ llm_error' = out.error
         /\ IF out.error # <<>> /\ retry /\ HasFilterMarker(out.error) /\ ~SafePrompts(env)
            THEN pc' = "RetryingSoftened" /\ UNCHANGED response
            ELSE IF out.error # <<>>
            THEN /\ pc' = "UpstreamUnavailable"
                 /\ response' = UnavailableResponse(env, req.endpoint, out.error)
            ELSE /\ pc' = IF req.endpoint = "/generate_key" THEN "Normalizing" ELSE "Extracting"
                 /\ UNCHANGED response

\* One invocation of call_azure_grading with prompt p.
Invoke(p, retry) ==
    /\ \E reply \in UpstreamReplies(req.endpoint) :
         LET out == CallAzureGrading(env, reply) IN
         /\ calls' = Append(calls, Invocation(p, temperature, MaxTokens(req.endpoint), out))
         /\ AfterCall(out, retry)
    /\ UNCHANGED <<env, req, prompt, temperature, parsed>>

\* The first upstream call; gateway_grade sends the softened prompt when
\* SAFE_PROMPTS is set.
CallUpstream ==
    /\ pc = "Calling"
    /\ Invoke(IF req.endpoint = "/grade" /\ SafePrompts(env) THEN SoftenPrompt(prompt)
              ELSE prompt,
              req.endpoint = "/grade")

\* gateway_grade's second call followed by the same test as the first.
RetrySoftenedAgain ==
    /\ pc = "RetryingSoftened"
    /\ Invoke(SoftenPrompt(prompt), TRUE)

\* gateway_grade's second call, with the softened prompt.
RetrySoftened ==
    /\ pc = "RetryingSoftened"
    /\ Invoke(SoftenPrompt(prompt), FALSE)

\* Whether the handler accepts the extracted value.
Accepts(endpoint, p) ==
    CASE endpoint = "/generate_questions" -> IsList(p)
      [] endpoint = "/analyze_topics" -> IsDict(p) /\ HasKey(p, "topics")
      [] OTHER -> IsDict(p)

\* _gateway_json_from_text on the completion, and the handler's type check.
Extract ==
    /\ pc = "Extracting"
    /\ LET out == JsonFromText(llm_result.content) IN
       IF out.raised
       THEN /\ pc' = "Crashed"
            /\ response' = CrashResponse
            /\ UNCHANGED parsed
       ELSE /\ parsed' = out.val
            /\ IF Accepts(req.endpoint, out.val)
               THEN pc' = "Normalizing" /\ UNCHANGED response
               ELSE /\ pc' = "ParseFailed"
                    /\ response' = ErrorResponse(502, "AI response parsing failed")
    /\ UNCHANGED <<env, req, prompt, temperature, calls, llm_result, llm_error>>

\* The content of the handler's 200 response.
ContentFor(r, p, result) ==
    CASE r.endpoint = "/grade" -> GradeContent(TextOr(r.body.operation, <<>>), p)
      [] r.endpoint = "/generate_key" -> GenerateKeyContent(result)
      [] r.endpoint = "/analyze_topics" ->
             PyDict(<<"topics">>, <<DictGet(p, "topics", EmptyList)>>)
      [] r.endpoint = "/generate_questions" ->
             GenerateQuestionsContent(r.body.payload, p, result.tokens)
      [] r.endpoint = "/refine_question" -> RefineQuestionContent(r.body.payload, p)
      [] r.endpoint = "/generate_distractors" ->
             PyDict(<<"distractors">>, <<DictGet(p, "distractors", EmptyList)>>)

ProviderFor(r) ==
    IF r.endpoint = "/grade" THEN GradeProvider(TextOr(r.body.operation, <<>>))
    ELSE CASE r.endpoint = "/generate_key" -> "hub:generate_key"
           [] r.endpoint = "/analyze_topics" -> "hub:analyze_topics"
           [] r.endpoint = "/generate_questions" -> "hub:generate_questions"
           [] r.endpoint = "/refine_question" -> "hub:refine_question"
           [] r.endpoint = "/generate_distractors" -> "hub:generate_distractors"

\* (llm_result.get("content") or "").strip() raises on a mapping with members.
KeyContentRaises(result) ==
    result.content.kind = "dict" /\ result.content.obj.keys # <<>>

\* The handler's last step: the 200 response.
Normalize ==
    /\ pc = "Normalizing"
    /\ IF \/ req.endpoint = "/generate_questions" /\ ~CanSlice(req.body.payload)
          \/ req.endpoint = "/generate_key" /\ KeyContentRaises(llm_result)
       THEN /\ pc' = "Crashed"
            /\ response' = CrashResponse
       ELSE /\ pc' = "Done"
            /\ response' = OkResponse(ProviderFor(req), ContentFor(req, parsed, llm_result),
                                      llm_result.tokens)
    /\ UNCHANGED <<env, req, prompt, temperature, calls, llm_result, llm_error, parsed>>

\* The harness of the extractor at rest.
ExIdle ==
    /\ exInput = ArgNone
    /\ exLead = <<>>
    /\ exTail = <<>>
    /\ exPlain = Returned(PyNone)
    /\ exFenced = Returned(PyNone)
    /\ exPc = "idle"
    /\ exAgain = NotFedBack

\* The pipeline before its request's first step.
GwStart ==
    /\ pc = "Authorizing"
    /\ prompt = <<>>
    /\ temperature = 0
    /\ calls = <<>>
    /\ llm_result = NoResult
    /\ llm_error = <<>>
    /\ parsed = PyNone
    /\ response = NoResponse

\* The pipeline at rest, while the extractor harness runs.
GwIdle ==
    /\ env = EnvOf(<<>>, <<>>, <<>>, <<>>, <<>>)
    /\ req = Request("/grade", NoHeader, NonMappingBody)
    /\ pc = "Idle"
    /\ prompt = <<>>
    /\ temperature = 0
    /\ calls = <<>>
    /\ llm_result = NoResult
    /\ llm_error = <<>>
    /\ parsed = PyNone
    /\ response = NoResponse

\* The harness of _select_from_distribution at rest.
SelIdle ==
    /\ distribution = <<>>
    /\ selRand = 0
    /\ selected = [raised |-> FALSE, label |-> "idle"]
    /\ selTypes = <<>>
    /\ selDraws = <<>>
    /\ selSpecs = [done |-> FALSE, raised |-> FALSE, lines |-> <<>>]

\* No requests in parallel.
ParIdle ==
    /\ reqs = <<>>
    /\ locals = <<>>
    /\ startupKeys = {}
    /\ rng = [writer |-> 0]

\* The harness of the PromptSoftener at rest.
SofIdle ==
    /\ sofInput = <<>>
    /\ softened = <<>>
    /\ resoftened = <<>>

Init ==
    /\ env \in Envs
    /\ \E endpoint \in GatedEndpoints :
         req \in {Request(endpoint, h, b) : h \in Headers, b \in BodiesOf(endpoint)}
    /\ GwStart
    /\ ExIdle
    /\ SelIdle
    /\ SofIdle
    /\ ParIdle

Next ==
    \/ Authorize /\ UNCHANGED <<exVars, selVars, sofVars, parVars>>
    \/ BuildPrompt /\ UNCHANGED <<exVars, selVars, sofVars, parVars>>
    \/ CallUpstream /\ UNCHANGED <<exVars, selVars, sofVars, parVars>>
    \/ RetrySoftened /\ UNCHANGED <<exVars, selVars, sofVars, parVars>>
    \/ Extract /\ UNCHANGED <<exVars, selVars, sofVars, parVars>>
    \/ Normalize /\ UNCHANGED <<exVars, selVars, sofVars, parVars>>

\* The credential configurations and the Authorization headers of the AuthGate.
KeyTexts == {<<>>, <<" ">>, <<"k1">>, <<"k1", ",", " ", "k2", " ">>, <<",", "k2", ",">>}

SingleKeyTexts == {<<>>, <<" ">>, <<" ", "k1">>}

HeaderToks == {"Bearer", "bearer", "Basic", " ", "k1", "k2", "bad"}

HeaderTexts == UNION {[1..n -> HeaderToks] : n \in 0..MaxHeaderLen}

AuthInit ==
    /\ env \in {EnvOf(keys, key, <<>>, <<>>, <<"https://hub">>) :
                   keys \in KeyTexts, key \in SingleKeyTexts}
    /\ req \in {Request("/grade", h, NonMappingBody) :
                   h \in {NoHeader} \cup {Header(s) : s \in HeaderTexts}}
    /\ GwStart
    /\ ExIdle
    /\ SelIdle
    /\ SofIdle
    /\ ParIdle

ExInit ==
    /\ exInput \in {ArgNone, ArgDict(PyDict(<<"k">>, <<PyNum("1")>>))}
                      \cup {ArgText(s) : s \in TextsOver(FuzzToks)}
    /\ exLead = <<>>
    /\ exTail = <<>>
    /\ exPlain = Returned(PyNone)
    /\ exFenced = Returned(PyNone)
    /\ exPc = "start"
    /\ exAgain = NotFedBack
    /\ GwIdle
    /\ SelIdle
    /\ SofIdle
    /\ ParIdle

\* One call of _gateway_json_from_text.
ExCall ==
    /\ exPc = "start"
    /\ exPlain' = JsonFromText(exInput)
    /\ exPc' = "done"
    /\ UNCHANGED <<exInput, exFenced, exLead, exTail, exAgain>>
    /\ UNCHANGED <<gwVars, selVars, sofVars, parVars>>

\* The result of the call is passed to _gateway_json_from_text again, as it is
\* and as the text json.dumps writes for it.
ExFeedBack ==
    /\ exPc = "done"
    /\ exAgain' = [own |-> JsonFromText(ArgOf(exPlain.val)),
                   dumped |-> JsonFromText(ArgText(Dumps(exPlain.val)))]
    /\ exPc' = "again"
    /\ UNCHANGED <<exInput, exPlain, exFenced, exLead, exTail>>
    /\ UNCHANGED <<gwVars, selVars, sofVars, parVars>>

ExNext == ExCall \/ ExFeedBack

FenceInit ==
    /\ exInput \in {ArgText(s) : s \in TextsOver(JsonToks)}
    /\ exLead \in Leads
    /\ exTail \in Tails
    /\ exPlain = Returned(PyNone)
    /\ exFenced = Returned(PyNone)
    /\ exPc = "start"
    /\ exAgain = NotFedBack
    /\ GwIdle
    /\ SelIdle
    /\ SofIdle
    /\ ParIdle

\* Two calls: on the text, and on the text between the fences.
FenceCall ==
    /\ exPc = "start"
    /\ exPlain' = JsonFromText(exInput)
    /\ exFenced' = JsonFromText(ArgText(exLead \o exInput.toks \o exTail))
    /\ exPc' = "done"
    /\ UNCHANGED <<exInput, exLead, exTail, exAgain>>
    /\ UNCHANGED <<gwVars, selVars, sofVars, parVars>>

(***************************************************************************)
(* The harness of _select_from_distribution.                               *)
(***************************************************************************)
Labels == {"easy", "medium", "hard"}

Weights == {0, 20, 60}

\* The label -> weight mappings of at most MaxLabels labels, in every order
\* of declaration.
Distributions ==
    {d \in UNION {[1..n -> Labels \X Weights] : n \in 0..MaxLabels} :
        \A i, j \in 1..Len(d) : d[i][1] = d[j][1] => i = j}

\* What a call of _select_from_distribution comes to.
Selected(label) == [raised |-> FALSE, label |-> label]

SelectRaised == [raised |-> TRUE, label |-> ""]

\* The question_types of the harness: at most MaxSlots of them.
TypeLists == UNION {[1..n -> {"essay", "matching"}] : n \in 0..MaxSlots}

\* The draws of a slot of the harness: for its difficulty and for its Bloom level.
SlotDraws == {1, 20, 21, 100} \X {1, 100}

\* What the loop over question_types comes to.
Specified(lines) == [done |-> TRUE, raised |-> FALSE, lines |-> lines]

SpecifyRaised == [done |-> TRUE, raised |-> TRUE, lines |-> <<>>]

SelInit ==
    /\ distribution \in Distributions
    /\ selRand = 0
    /\ selected = Selected("")
    /\ selTypes \in TypeLists
    /\ selDraws = <<>>
    /\ selSpecs = [done |-> FALSE, raised |-> FALSE, lines |-> <<>>]
    /\ GwIdle
    /\ ExIdle
    /\ SofIdle
    /\ ParIdle

\* One call of _select_from_distribution, the draw made inside it.
Select ==
    /\ selRand = 0
    /\ ~selSpecs.done
    /\ \E r \in 1..100 :
         /\ selRand' = r
         /\ selected' = IF SelectRaises(distribution) THEN SelectRaised
                        ELSE Selected(SelectFromDistribution(distribution, r))
    /\ UNCHANGED <<distribution, selTypes, selDraws, selSpecs, exVars, gwVars, sofVars, parVars>>

\* The loop of _build_question_generation_prompt over question_types, with
\* difficulty_dist the mapping of the harness and the default blooms_dist.
Specify ==
    /\ selRand = 0
    /\ ~selSpecs.done
    /\ \E draws \in [1..Len(selTypes) -> SlotDraws] :
         /\ selDraws' = draws
         /\ selSpecs' = IF selTypes # <<>> /\ SelectRaises(distribution) THEN SpecifyRaised
                        ELSE Specified(SpecLines(selTypes, distribution, DefaultBloomsDist,
                                                 draws))
    /\ UNCHANGED <<distribution, selRand, selected, selTypes, exVars, gwVars, sofVars, parVars>>

SelNext == Select \/ Specify

(***************************************************************************)
(* The harness of the PromptSoftener.                                      *)
(***************************************************************************)
SoftenToks ==
    {"text", "Override Any Default Guidance", "STRICT JSON", "strict json",
     "Do NOT wrap your response", "\\bMUST\\b", "must", "MUST"}

\* The lines of at most two tokens, and the prompts of at most MaxLines lines.
SoftenLinesOver == UNION {[1..n -> SoftenToks] : n \in 0..2}

SoftenPrompts == UNION {[1..n -> SoftenLinesOver] : n \in 0..MaxLines}

SofInit ==
    /\ sofInput \in SoftenPrompts
    /\ softened = <<>>
    /\ resoftened = <<>>
    /\ GwIdle
    /\ ExIdle
    /\ SelIdle
    /\ ParIdle

\* _soften_prompt on the prompt, and on its own output.
Soften ==
    /\ softened = <<>>
    /\ softened' = SoftenPrompt(sofInput)
    /\ resoftened' = SoftenPrompt(SoftenPrompt(sofInput))
    /\ UNCHANGED <<sofInput, exVars, gwVars, selVars, parVars>>

(***************************************************************************)
(* Requests in parallel: each runs its handler on its own locals, one step *)
(* at a time, in any interleaving with the others.  The process state the  *)
(* handlers share is the environment and the generator of the random       *)
(* module.                                                                 *)
(***************************************************************************)
\* The locals of a handler before its first step.
StartOf(endpoint) ==
    [pc |-> IF endpoint = "/health" THEN "Answering" ELSE "Authorizing",
     allowed |-> {}, drewFrom |-> {}, prompt |-> <<>>, temperature |-> 0, calls |-> <<>>,
     llm_result |-> NoResult, llm_error |-> <<>>, parsed |-> PyNone,
     response |-> NoResponse]

\* A bool and a small count as values of a response.
PyBool(b) == [t |-> "bool", v |-> IF b THEN "true" ELSE "false", keys |-> <<>>, items |-> <<>>]

Numeral(n) == CASE n = 0 -> "0" [] n = 1 -> "1" [] n = 2 -> "2" [] OTHER -> "3"

\* health() reporting a configured gateway whatever the credential set.
HealthResponseConfigured(e, exists) ==
    OkResponse("",
               PyDict(<<"status", "gateway_configured", "gateway_keys_count",
                        "env_file_exists">>,
                      <<PyStr("\"ok\""), PyBool(TRUE),
                        PyNum(Numeral(Cardinality(GatewayAllowedKeys(e)))), PyBool(exists)>>),
               NoResponse.usage)

\* health(): the 200 response; exists is os.path.exists(ENV_PATH).
HealthResponse(e, exists) ==
    LET allowed == GatewayAllowedKeys(e) IN
    OkResponse("",
               PyDict(<<"status", "gateway_configured", "gateway_keys_count",
                        "env_file_exists">>,
                      <<PyStr("\"ok\""), PyBool(allowed # {}),
                        PyNum(Numeral(Cardinality(allowed))), PyBool(exists)>>),
               NoResponse.usage)

\* The handler after its invocation of call_azure_grading with prompt p came
\* to out.
AfterInvocation(e, r, l, p, out, retry) ==
    LET l1 == [l EXCEPT !.calls = Append(@, Invocation(p, l.temperature,
                                                       MaxTokens(r.endpoint), out))]
    IN  IF out.raised THEN [l1 EXCEPT !.pc = "Crashed", !.response = CrashResponse]
        ELSE LET l2 == [l1 EXCEPT !.llm_result = out.result, !.llm_error = out.error] IN
             IF out.error # <<>> /\ retry /\ HasFilterMarker(out.error) /\ ~SafePrompts(e)
             THEN [l2 EXCEPT !.pc = "RetryingSoftened"]
             ELSE IF out.error # <<>>
             THEN [l2 EXCEPT !.pc = "UpstreamUnavailable",
                             !.response = UnavailableResponse(e, r.endpoint, out.error)]
             ELSE [l2 EXCEPT !.pc = IF r.endpoint = "/generate_key" THEN "Normalizing"
                                    ELSE "Extracting"]

\* One step of the handler of request r on its locals l: out is what the
\* upstream call of this step comes to, draws the random draws of this step,
\* exists the answer of os.path.exists.
Handle(e, r, l, out, draws, exists) ==
    CASE l.pc = "Answering" ->
             [l EXCEPT !.pc = "Done", !.response = HealthResponse(e, exists)]
      [] l.pc = "Authorizing" ->
             LET auth == GatewayRequireAuth(e, r.header) IN
             [l EXCEPT !.allowed = GatewayAllowedKeys(e),
                       !.pc = IF auth.ok THEN "BuildingPrompt" ELSE "AuthFailed",
                       !.response = IF auth.ok THEN @ ELSE auth.resp]
      [] l.pc = "BuildingPrompt" ->
             LET built == BuildFor(r, draws) IN
             IF built.kind = "raise" THEN [l EXCEPT !.pc = "Crashed", !.response = CrashResponse]
             ELSE IF built.kind = "bad"
             THEN [l EXCEPT !.pc = "BadRequest", !.response = built.resp]
             ELSE [l EXCEPT !.pc = "Calling", !.prompt = built.prompt,
                            !.temperature = built.temperature]
      [] l.pc = "Calling" ->
             AfterInvocation(e, r, l,
                    IF r.endpoint = "/grade" /\ SafePrompts(e) THEN SoftenPrompt(l.prompt)
                    ELSE l.prompt,
                    out, r.endpoint = "/grade")
      [] l.pc = "RetryingSoftened" -> AfterInvocation(e, r, l, SoftenPrompt(l.prompt), out, FALSE)
      [] l.pc = "Extracting" ->
             LET got == JsonFromText(l.llm_result.content) IN
             IF got.raised THEN [l EXCEPT !.pc = "Crashed", !.response = CrashResponse]
             ELSE IF Accepts(r.endpoint, got.val)
             THEN [l EXCEPT !.parsed = got.val, !.pc = "Normalizing"]
             ELSE [l EXCEPT !.parsed = got.val, !.pc = "ParseFailed",
                            !.response = ErrorResponse(502, "AI response parsing failed")]
      [] l.pc = "Normalizing" ->
             IF \/ r.endpoint = "/generate_questions" /\ ~CanSlice(r.body.payload)
                \/ r.endpoint = "/generate_key" /\ KeyContentRaises(l.llm_result)
             THEN [l EXCEPT !.pc = "Crashed", !.response = CrashResponse]
             ELSE [l EXCEPT !.pc = "Done",
                            !.response = OkResponse(ProviderFor(r),
                                                    ContentFor(r, l.parsed, l.llm_result),
                                                    l.llm_result.tokens)]
      [] OTHER -> l

\* The number of requests handled in parallel.
MaxRequests == 2

RequestIds == 1..MaxRequests

ParEnvs ==
    {EnvOf(keys, <<>>, <<>>, <<>>, <<"https://hub", "/">>) :
        keys \in {<<>>, <<"k1", ",", " ", "k2">>}}

ParRequests ==
    {Request("/health", NoHeader, NonMappingBody),
     Request("/grade", Header(<<"Bearer", " ", "k1">>),
             Body(Top(Str(<<"grade_text">>), Absent, NoFields), "dict",
                  [question |-> Q, submission |-> A])),
     Request("/grade", Header(<<"Bearer", " ", "bad">>),
             Body(Top(Str(<<"grade_text">>), Absent, NoFields), "dict",
                  [question |-> Q, submission |-> A])),
     Request("/generate_questions", Header(<<"Bearer", " ", "k1">>),
             Body(Top(Absent, Absent, NoFields), "dict",
                  [topic_title |-> Q, question_types |-> Types(<<"essay">>)])),
     Request("/analyze_topics", Header(<<"Bearer", " ", "k2">>), NonMappingBody)}

ParReplies ==
    {ReplyStatus(<<"400 ", "content_filter">>),
     ReplyOk(ArgText(ObjectText(GradeTextKeys)), TRUE, TRUE),
     ReplyOk(ArgText(<<"[">> \o ObjectText(<<"questiontext">>) \o <<"]">>), FALSE, FALSE)}

\* The draws of random.randint(1, 100) that a handler in parallel takes for a
\* question: for its difficulty and for its Bloom level.
ParDraws == {<<1, 1>>, <<100, 100>>}

\* flask.request in the handler of request i, were it one object for all.
RequestShared(i) == reqs[1]

\* flask.request in the handler of request i: the request of its own context.
RequestOf(i) == reqs[i]

Terminal == {"Done", "AuthFailed", "BadRequest", "UpstreamUnavailable", "ParseFailed", "Crashed"}

\* Whether this step of the handler calls random.randint.
Drawing(r, l, draws) ==
    l.pc = "BuildingPrompt" /\ Slots(r) > 0 /\ BuildFor(r, draws).kind = "ok"

ParInit ==
    /\ env \in ParEnvs
    /\ reqs \in [RequestIds -> ParRequests]
    /\ locals = [i \in RequestIds |-> StartOf(reqs[i].endpoint)]
    /\ startupKeys = GatewayAllowedKeys(env)
    /\ rng = [writer |-> 0]
    /\ req = Request("/grade", NoHeader, NonMappingBody)
    /\ pc = "Idle"
    /\ prompt = <<>>
    /\ temperature = 0
    /\ calls = <<>>
    /\ llm_result = NoResult
    /\ llm_error = <<>>
    /\ parsed = PyNone
    /\ response = NoResponse
    /\ ExIdle
    /\ SelIdle
    /\ SofIdle

\* One step of the handler of request i; the steps of the handlers interleave.
ParStep(i) ==
    /\ locals[i].pc \notin Terminal
    /\ LET r == RequestOf(i)
           l == locals[i]
       IN  \E reply \in (IF l.pc \in {"Calling", "RetryingSoftened"} THEN ParReplies
                         ELSE {ReplyMalformed}),
              draws \in [1..(IF l.pc = "BuildingPrompt" THEN Slots(r) ELSE 0) ->
                            ParDraws],
              exists \in (IF l.pc = "Answering" THEN BOOLEAN ELSE {FALSE}) :
             /\ locals' = [locals EXCEPT ![i] =
                              [Handle(env, r, l, CallAzureGrading(env, reply), draws, exists)
                                  EXCEPT !.drewFrom = IF Drawing(r, l, draws)
                                                      THEN @ \cup {rng.writer} ELSE @]]
             /\ rng' = IF Drawing(r, l, draws) THEN [writer |-> i] ELSE rng
    /\ UNCHANGED <<reqs, startupKeys, gwVars, exVars, selVars, sofVars>>

ParNext == \E i \in RequestIds : ParStep(i)

vars == <<exVars, gwVars, selVars, sofVars, parVars>>

SpecExtract == ExInit /\ [][ExNext]_vars

SpecFence == FenceInit /\ [][FenceCall]_vars

SpecAuth == AuthInit /\ [][Authorize /\ UNCHANGED <<exVars, selVars, sofVars, parVars>>]_vars

Spec == Init /\ [][Next]_vars

\* The handler's thread keeps running its code, and requests.post returns or
\* raises within its timeout of 60 seconds: a step that can be taken is taken.
SpecTerminates == Init /\ [][Next]_vars /\ WF_vars(Next)


SpecSelect == SelInit /\ [][SelNext]_vars

SpecSoften == SofInit /\ [][Soften]_vars

SpecPar == ParInit /\ [][ParNext]_vars

(***************************************************************************)
(* Properties of the extractor.                                            *)
(***************************************************************************)
IsScalar(x) == x.t \in {"num", "str"}

\* Some contiguous part of text s is, as a whole, the JSON text of x.
ParsedFromPartOf(s, x) ==
    \E i \in 1..Len(s) : \E j \in i..Len(s) :
        LET part == JsonLoads(SubSeq(s, i, j)) IN part.ok /\ part.val = x

\* The tokens of s that are neither whitespace, nor fence markers, nor json tags.
Payload(s) ==
    SelectSeq(s, LAMBDA tok : ~IsSpace(tok) /\ tok # Fence /\ Lower(tok) # "json")

\* C7 as stated: the extractor never raises and returns a JSON object, a JSON
\* array or None, never a scalar.
C7_NeverScalar ==
    exPc = "done" => ~exPlain.raised /\ ~IsScalar(exPlain.val)

\* C7, amended: the extractor never raises; what it returns is None or the
\* value of a contiguous part of the text parsed as a whole (never a partial
\* or guessed structure); and it is an object or an array unless the text is,
\* fences and whitespace apart, one JSON scalar, which is then returned.
C7_ExtractorTotal ==
    exPc = "done" =>
        /\ ~exPlain.raised
        /\ exInput.kind = "none" => exPlain.val = PyNone
        /\ exInput.kind = "dict" => exPlain.val = exInput.obj
        /\ exInput.kind = "text" /\ exPlain.val # PyNone =>
               ParsedFromPartOf(exInput.toks, exPlain.val)
        /\ IsScalar(exPlain.val) =>
               /\ Len(Payload(exInput.toks)) = 1
               /\ Payload(exInput.toks)[1] \in NumLits \cup StrLits

\* C7's case: a text that is a bare JSON scalar has been extracted.
C7_Witness ==
    /\ exPc = "done"
    /\ exInput.kind = "text"
    /\ IsScalar(exPlain.val)

\* t is the JSON text of an object or an array.
ValidJsonText(t) ==
    LET direct == JsonLoads(t) IN direct.ok /\ (IsDict(direct.val) \/ IsList(direct.val))

\* C8 as stated: a valid JSON text between a leading fence with any language
\* tag, or none, and a trailing fence extracts to the same value as the text.
C8_AnyTag ==
    exPc = "done" /\ ValidJsonText(exInput.toks) => exFenced = exPlain

\* The leading fence carries no tag, or the tag json in some letter case.
JsonTagOrNone(lead) == \A i \in 2..Len(lead) : IsSpace(lead[i]) \/ Lower(lead[i]) = "json"

\* C8, amended: a valid JSON text between a leading fence with no tag or the
\* tag json (in any letter case) and a trailing fence extracts to the same
\* value as the text, which is the value of parsing the text directly.
C8_FenceTransparent ==
    exPc = "done" /\ ValidJsonText(exInput.toks) /\ JsonTagOrNone(exLead) =>
        /\ exFenced = exPlain
        /\ exPlain = Returned(JsonLoads(exInput.toks).val)

\* C8's case: a non-empty object between an upper-case json fence and a
\* trailing fence has been extracted.
C8_Witness ==
    /\ exPc = "done"
    /\ exLead = <<Fence, "JSON", " ">>
    /\ IsDict(exFenced.val)
    /\ exFenced.val.keys # <<>>
    /\ exFenced = exPlain

\* C28 as stated: for a text that is valid JSON for an object or an array, the
\* extractor returns the value of parsing it directly, and returns that value
\* again both for its own result and for the JSON text of its result.
C28_Idempotent ==
    exPc = "again" /\ exInput.kind = "text" /\ ValidJsonText(exInput.toks) =>
        /\ exPlain = Returned(JsonLoads(exInput.toks).val)
        /\ exAgain.dumped = exPlain
        /\ exAgain.own = exPlain

(***************************************************************************)
(* Properties of the AuthGate.                                             *)
(***************************************************************************)
\* The accepted-credential set and the extracted token of the request.
Allowed == GatewayAllowedKeys(env)

Token == GatewayExtractBearerToken(req.header)

Authorized == pc = "BuildingPrompt"

\* C1: once the AuthGate has decided: with a non-empty credential set the
\* request is authorized if and only if its extracted bearer token is
\* non-empty and a member of the set, and is otherwise answered 401
\* Unauthorized; with an empty set it is answered 503 not-configured whatever
\* token it presents.
C1_AuthIffMember ==
    pc # "Authorizing" =>
        /\ Allowed # {} =>
              /\ Authorized <=> (Token # <<>> /\ Token \in Allowed)
              /\ ~Authorized =>
                    /\ pc = "AuthFailed"
                    /\ response = ErrorResponse(401, "Unauthorized")
        /\ Allowed = {} =>
              /\ pc = "AuthFailed"
              /\ response = ErrorResponse(503, "Gateway authentication is not configured")

\* A request authorized on the second of two configured keys, the scheme in
\* lower case.
C1_Witness ==
    /\ Authorized
    /\ Cardinality(Allowed) = 2
    /\ req.header.toks = <<"bearer", " ", " ", "k2">>

\* The request fails the AuthGate: no credential is configured, or the token
\* is empty or not a configured one.
FailsAuthGate == Allowed = {} \/ Token = <<>> \/ Token \notin Allowed

\* C2: on every gated endpoint a request that fails the AuthGate is, once the
\* gate has decided, in the terminal AuthFailed state and stays there: no
\* prompt is built and no upstream call is issued for it, and its response is
\* the 503 or the 401 that the credentials and the header alone determine,
\* whatever the body.
C2_AuthFailedFirst ==
    (req.endpoint \in GatedEndpoints /\ FailsAuthGate /\ pc # "Authorizing") =>
        /\ pc = "AuthFailed"
        /\ prompt = <<>>
        /\ calls = <<>>
        /\ response = IF Allowed = {}
                      THEN ErrorResponse(503, "Gateway authentication is not configured")
                      ELSE ErrorResponse(401, "Unauthorized")

\* A request with a body that would be served, refused for its bad token.
C2_Witness ==
    /\ pc = "AuthFailed"
    /\ response.status = 401
    /\ req.endpoint = "/generate_questions"
    /\ req.body.payload["topic_title"] = Q
    /\ req.header.toks = <<"Bearer", " ", "bad">>

(***************************************************************************)
(* Properties of the upstream calls.                                       *)
(***************************************************************************)
\* The first call of a /grade request failed with a content-filter rejection
\* marker, in whatever letter case, and proactive softening is off.
FirstCallFiltered ==
    /\ req.endpoint = "/grade"
    /\ Len(calls) >= 1
    /\ ~calls[1].raised
    /\ \E i \in 1..Len(calls[1].error) :
          Lower(calls[1].error[i]) \in {"content_filter", "responsibleaipolicyviolation"}
    /\ ~SafePrompts(env)

\* C3: on /grade, after a first call that failed with a content-filter marker
\* while SAFE_PROMPTS is off, the pipeline is about to issue, or has issued,
\* exactly one further call; that call's prompt is the softened form of the
\* first call's prompt and its temperature, top_p and max_tokens are those of
\* the first call; when it fails too the request ends with 502 and "AI grading
\* is temporarily unavailable"; when it succeeds the pipeline goes on to
\* extraction with the second call's completion.
C3_SoftenedRetry ==
    FirstCallFiltered =>
        \/ Len(calls) = 1 /\ pc = "RetryingSoftened" /\ calls[1].prompt = prompt
        \/ /\ Len(calls) = 2
           /\ calls[2].prompt = SoftenPrompt(calls[1].prompt)
           /\ calls[2].prompt # calls[1].prompt
           /\ calls[2].temperature = calls[1].temperature
           /\ calls[2].top_p = calls[1].top_p
           /\ calls[2].max_tokens = calls[1].max_tokens
           /\ calls[2].error # <<>> =>
                 /\ pc = "UpstreamUnavailable"
                 /\ response.status = 502
                 /\ response.error = "AI grading is temporarily unavailable"
           /\ (calls[2].error = <<>> /\ ~calls[2].raised) =>
                 /\ pc \in {"Extracting", "Normalizing", "Done", "ParseFailed"}
                 /\ llm_result = calls[2].result
                 /\ pc # "Extracting" => parsed = JsonFromText(calls[2].result.content).val

\* A retry that succeeded after a marker in upper and lower case, the
\* response built from the second completion.
C3_Witness ==
    /\ FirstCallFiltered
    /\ calls[1].error = <<"Azure call failed: ", "400 ", "ResponsibleAIPolicyViolation">>
    /\ Len(calls) = 2
    /\ pc = "Done"
    /\ response.status = 200
    /\ llm_result.content = ArgText(ObjectText(<<"score">>))

\* The invocations of the request that reached the network.
Issued == {i \in 1..Len(calls) : calls[i].sent}

\* C4: for every request on every endpoint and every sequence of upstream
\* outcomes at most two upstream calls are issued, one call and at most one
\* retry, the retry on /grade alone; after the second no state can issue a
\* third.
C4_RetryCeiling ==
    /\ Cardinality(Issued) <= Len(calls)
    /\ Len(calls) <= 2
    /\ req.endpoint # "/grade" => Len(calls) <= 1
    /\ Len(calls) = 2 => pc \notin {"Calling", "RetryingSoftened"}

\* Two calls issued, both refused by the content filter.
C4_Witness ==
    /\ Cardinality(Issued) = 2
    /\ HasFilterMarker(calls[2].error)
    /\ pc = "UpstreamUnavailable"

(***************************************************************************)
(* Properties of request validation.                                       *)
(***************************************************************************)
\* The handler has got past the AuthGate and the validation of the body.
Validated == pc \notin {"Authorizing", "AuthFailed", "BuildingPrompt"}

\* The body and its payload are mappings.
WellFormed == req.body.kind = "dict" /\ req.body.payloadKind = "dict"

\* The operation string of a /grade request, as the handler reads it.
Operation == TextOr(req.body.operation, <<>>)

\* C5: on /grade an authorized request that names an operation other than the
\* four supported ones ends in BadRequest with 400 and "Unsupported
\* operation", and no upstream call is made for it.
C5_UnsupportedRejected ==
    (/\ req.endpoint = "/grade"
     /\ Validated
     /\ WellFormed
     /\ Operation # <<>>
     /\ \A op \in GradeOperations : Operation # <<op>>) =>
        /\ pc = "BadRequest"
        /\ response = ErrorResponse(400, "Unsupported operation")
        /\ calls = <<>>

\* A member that is missing or blank: absent, or a str of whitespace.
Blank(x) == x.k = "absent" \/ (x.k = "str" /\ Strip(x.s) = <<>>)

\* The required members of the request are missing or blank; generate_key
\* takes either spelling of its two members.
RequiredMissing ==
    LET top == req.body.top
        payload == req.body.payload
    IN  CASE req.endpoint = "/generate_key" ->
                 /\ Blank(top["question"]) /\ Blank(top["question_name"])
                 /\ Blank(top["question_text"]) /\ Blank(top["questionText"])
          [] req.endpoint = "/analyze_topics" -> Blank(payload["content"])
          [] req.endpoint = "/generate_questions" -> Blank(payload["topic_title"])
          [] req.endpoint = "/refine_question" ->
                 Blank(payload["existing_question"]) \/ Blank(payload["topic_title"])
          [] req.endpoint = "/generate_distractors" ->
                 Blank(payload["question_text"]) \/ Blank(payload["correct_answer"])
          [] OTHER -> FALSE

\* C6: on /generate_key, /analyze_topics, /generate_questions,
\* /refine_question and /generate_distractors an authorized request whose
\* required members are missing or blank is answered 400, and no upstream
\* call is issued for it.
C6_MissingFieldsRejected ==
    (Validated /\ WellFormed /\ RequiredMissing) =>
        /\ pc = "BadRequest"
        /\ response.status = 400
        /\ calls = <<>>

(***************************************************************************)
(* Properties of the ResponseNormalizer.                                   *)
(***************************************************************************)
\* The provider kind and the content keys the four operations are to have.
KindOf(operation) ==
    CASE operation = <<"semantic_similarity">> -> "hub:semantic"
      [] operation = <<"quiz_summary">> -> "hub:summary"
      [] operation = <<"grade_rubric">> -> "hub:rubric"
      [] operation = <<"grade_text">> -> "hub:text"

ShapeOf(operation) ==
    CASE operation = <<"semantic_similarity">> ->
             <<"matched_concepts", "partially_matched_concepts", "missing_concepts",
               "reasoning">>
      [] operation = <<"quiz_summary">> -> <<"overall_feedback", "strengths", "improvements">>
      [] operation = <<"grade_rubric">> -> <<"criteria", "feedback">>
      [] operation = <<"grade_text">> -> <<"score", "max_score", "feedback", "criteria">>

GradeDone == req.endpoint = "/grade" /\ pc = "Done"

\* C9: every 200 response of /grade is for one of the four operations, has
\* the provider "hub:<kind>" of that operation, and a content mapping whose
\* keys are those of the operation whatever keys the model's JSON had; the
\* value of a key the JSON had is the JSON's.
C9_FixedShape ==
    GradeDone =>
        /\ response.status = 200
        /\ \E op \in GradeOperations : Operation = <<op>>
        /\ response.provider = KindOf(Operation)
        /\ IsDict(response.content)
        /\ response.content.keys = ShapeOf(Operation)
        /\ \A i \in 1..Len(ShapeOf(Operation)) :
              HasKey(parsed, ShapeOf(Operation)[i]) =>
                  response.content.items[i] = DictGet(parsed, ShapeOf(Operation)[i], PyNone)

\* A rubric grading whose completion had a key outside the shape and none of
\* the shape.
C9_Witness ==
    /\ GradeDone
    /\ req.body.operation = Str(<<" ", "grade_rubric">>)
    /\ parsed.keys = <<"extra">>
    /\ response.content.keys = <<"criteria", "feedback">>

\* The fields of the output shapes by type.
ListFields ==
    {"matched_concepts", "partially_matched_concepts", "missing_concepts", "strengths",
     "improvements", "criteria", "answers"}

TextFields ==
    {"reasoning", "overall_feedback", "feedback", "questiontext", "difficulty",
     "blooms_level", "generalfeedback"}

NumericFields == {"score", "max_score"}

\* The type-appropriate empty value of a field.
EmptyOf(key) ==
    CASE key \in ListFields -> EmptyList
      [] key \in TextFields -> EmptyStr
      [] key \in NumericFields -> PyNum("0")

\* The content of a 200 response of /grade or of /refine_question (the
\* question mapping), and the keys of its shape.
RefineKeys ==
    <<"questiontext", "questiontype", "difficulty", "blooms_level", "answers",
      "generalfeedback">>

NormalizedDone == pc = "Done" /\ req.endpoint \in {"/grade", "/refine_question"}

Output ==
    IF req.endpoint = "/grade" THEN response.content
    ELSE DictGet(response.content, "question", PyNone)

OutputKeys == IF req.endpoint = "/grade" THEN ShapeOf(Operation) ELSE RefineKeys

\* The keys whose value comes from the model's JSON.
FromModel == {OutputKeys[i] : i \in 1..Len(OutputKeys)} \ {"questiontype"}

DefaultOf(key) ==
    CASE key = "max_score" -> PyNum("100")
      [] req.endpoint = "/refine_question" /\ key = "difficulty" ->
             PyOfField(Get(req.body.payload, "difficulty", Str(<<"medium">>)))
      [] req.endpoint = "/refine_question" /\ key = "blooms_level" -> PyStr("\"understand\"")
      [] OTHER -> EmptyOf(key)

Extracted ==
    /\ req.endpoint \in GatedEndpoints \ {"/generate_key"}
    /\ calls # <<>>
    /\ ~calls[Len(calls)].raised
    /\ calls[Len(calls)].error = <<>>
    /\ pc \notin {"Calling", "RetryingSoftened", "Extracting"}

\* What the extractor yields for the completion of the last call.
Yielded == JsonFromText(calls[Len(calls)].result.content).val

\* C11: a request whose upstream call succeeded ends in ParseFailed exactly
\* when the extractor yields nothing the handler can use (nothing at all, or
\* a value that is not of the type the handler takes); the response is then
\* 502 "AI response parsing failed" and no further call is made.  Whenever
\* the extractor yields a value the handler takes, normalization does not
\* fail and the request ends in Done with 200.
C11_ParseFailedOrDone ==
    Extracted =>
        /\ pc = "ParseFailed" <=> ~Accepts(req.endpoint, Yielded)
        /\ pc = "ParseFailed" =>
              /\ response = ErrorResponse(502, "AI response parsing failed")
              /\ response.error # UnavailableMessage(req.endpoint)
        /\ Accepts(req.endpoint, Yielded) =>
              /\ pc \in {"Normalizing", "Done"}
              /\ pc = "Done" => response.status = 200

\* The 502 of an endpoint with nothing of the upstream in it.
GenericUnavailable ==
    CASE req.endpoint = "/grade" ->
             ErrorResponse(502, "AI grading is temporarily unavailable")
      [] req.endpoint = "/generate_key" ->
             ErrorResponse(502, "AI key generation is temporarily unavailable")
      [] req.endpoint = "/analyze_topics" ->
             ErrorResponse(502, "AI topic analysis is temporarily unavailable")
      [] req.endpoint = "/generate_questions" ->
             ErrorResponse(502, "AI question generation is temporarily unavailable")
      [] req.endpoint = "/refine_question" ->
             ErrorResponse(502, "AI question refinement is temporarily unavailable")
      [] req.endpoint = "/generate_distractors" ->
             ErrorResponse(502, "AI distractor generation is temporarily unavailable")

\* The debug switch as the environment gives it.
DebugOn == env.DEBUG_AZURE_ERRORS \in {<<" ", "yes">>, <<"1">>, <<"true">>}

\* C12: the response to a request whose upstream call failed is, with the
\* debug switch off, the 502 of its endpoint and nothing else, so that two
\* requests that differ in the failure text alone get the same status and
\* body; the failure text is in a response only on /grade with the switch
\* on, and no other response carries any of it.
C12_NoLeak ==
    /\ pc = "UpstreamUnavailable" =>
          /\ llm_error # <<>>
          /\ (~DebugOn \/ req.endpoint # "/grade") => response = GenericUnavailable
          /\ (DebugOn /\ req.endpoint = "/grade") =>
                response = [GenericUnavailable EXCEPT !.details = llm_error]
    /\ response.details # <<>> =>
          pc = "UpstreamUnavailable" /\ req.endpoint = "/grade" /\ DebugOn

\* A refusal by the content filter, twice, answered without its text.
C12_Witness ==
    /\ pc = "UpstreamUnavailable"
    /\ req.endpoint = "/grade"
    /\ ~DebugOn
    /\ llm_error = <<"Azure call failed: ", "400 ", "content_filter">>
    /\ response = ErrorResponse(502, "AI grading is temporarily unavailable")

(***************************************************************************)
(* Properties of the temperature.                                          *)
(***************************************************************************)
\* The tier the request asks for: its quality, trimmed and in lower case;
\* "" when it gives none.
Tier == LowerText(TextOr(req.body.quality, <<>>))

\* The quality -> temperature table of each endpoint, in tenths, and the
\* default of the endpoint.
TierTable(endpoint) ==
    CASE endpoint = "/grade" -> [fast |-> 2, balanced |-> 4, best |-> 6, default |-> 4]
      [] endpoint = "/analyze_topics" -> [fast |-> 2, balanced |-> 3, best |-> 3, default |-> 3]
      [] endpoint = "/generate_questions" ->
             [fast |-> 5, balanced |-> 7, best |-> 7, default |-> 7]
      [] endpoint = "/refine_question" -> [fast |-> 7, balanced |-> 9, best |-> 9, default |-> 9]
      [] endpoint = "/generate_distractors" ->
             [fast |-> 5, balanced |-> 7, best |-> 7, default |-> 7]

TierTemperature ==
    LET table == TierTable(req.endpoint) IN
    CASE Tier = <<"fast">> -> table.fast
      [] Tier = <<"balanced">> -> table.balanced
      [] Tier = <<"best">> -> table.best
      [] OTHER -> table.default

\* The request went to the upstream, on an endpoint that has a table.
Called == calls # <<>> /\ req.endpoint \in GatedEndpoints \ {"/generate_key"}

\* The request was refused, or raised, before any call; the same request
\* without a quality is then not served either.
RefusedWhateverQuality ==
    (pc \in {"BadRequest", "Crashed"} /\ calls = <<>>) =>
        BuildFor([req EXCEPT !.body.quality = Absent],
                 [i \in 1..Slots(req) |-> <<1, 1>>]).kind # "ok"

\* C13 as claimed: the temperature of every upstream call is the entry of
\* the endpoint's table for the tier asked for, the endpoint's default for
\* an absent or unknown tier; and no request is refused for its quality.
C13_TierTemperature ==
    /\ Called => \A i \in 1..Len(calls) : calls[i].temperature = TierTemperature
    /\ RefusedWhateverQuality

\* The request asks /generate_questions for a regeneration.
Regeneration ==
    req.endpoint = "/generate_questions" /\ Truthy(req.body.payload["is_regeneration"])

\* C13: the temperature of every upstream call is the entry of the
\* endpoint's table for the tier asked for, the endpoint's default for an
\* absent or unknown tier, except that a regeneration on /generate_questions
\* is sampled at 0.9 whatever the tier; no request is refused for its
\* quality.
C13_Temperature ==
    /\ Called =>
          \A i \in 1..Len(calls) :
              calls[i].temperature = IF Regeneration THEN 9 ELSE TierTemperature
    /\ RefusedWhateverQuality

\* A grading at the tier " BEST", sampled at 0.6 in both of its calls.
C13_Witness ==
    /\ req.endpoint = "/grade"
    /\ req.body.quality = Str(<<" ", "BEST">>)
    /\ Len(calls) = 2
    /\ calls[2].temperature = 6

(***************************************************************************)
(* Properties of malformed bodies.                                         *)
(***************************************************************************)
\* The operation of a /grade request is missing or empty, or the payload of
\* a request is a list, a string or a number.
Malformed ==
    /\ req.endpoint \in GatedEndpoints \ {"/generate_key"}
    /\ req.body.kind = "dict"
    /\ \/ req.endpoint = "/grade" /\ Operation = <<>>
       \/ req.body.payloadKind = "other"

\* C14: an authorized request with a missing or empty operation (on /grade)
\* or with a payload that is not a mapping ends in BadRequest with 400,
\* nothing raised and no upstream call made.
C14_MalformedRejected ==
    (Validated /\ Malformed) =>
        /\ pc = "BadRequest"
        /\ response.status = 400
        /\ calls = <<>>

\* Invocation i returned one of the two pairs: a completion and no failure
\* reason, or no completion and a failure reason.
ReturnedPair(i) ==
    /\ ~calls[i].raised
    /\ \/ calls[i].result.some /\ calls[i].error = <<>>
       \/ ~calls[i].result.some /\ calls[i].error # <<>>

\* C17: every invocation of call_azure_grading returns one of the two pairs
\* and never raises to the handler, whatever the network does: an exception
\* of the transport, a non-success status, or a success status with a body
\* that is not JSON, not a mapping or has no first choice.
C17_ResultContract == \A i \in 1..Len(calls) : ReturnedPair(i)


(***************************************************************************)
(* Properties of the failure handling of the upstream call.                *)
(***************************************************************************)
\* The first call of the request returned a failure.
FirstCallFailed == Len(calls) >= 1 /\ ~calls[1].raised /\ calls[1].error # <<>>

\* The softened retry was entered.
RetryEntered == pc = "RetryingSoftened" \/ Len(calls) >= 2

\* The first failure is a rejection (a non-success status) whose text carries
\* a content-filter marker, in whatever letter case.
MarkedRejection ==
    /\ calls[1].site = "status"
    /\ \E i \in 1..Len(calls[1].error) :
          Lower(calls[1].error[i]) \in {"content_filter", "responsibleaipolicyviolation"}

\* C21: the softened retry is entered only after a first call that was
\* rejected with a non-success status whose text carries a content-filter
\* marker; after any other first failure (missing configuration, a transport
\* exception whatever its text, a rejection without a marker) the request is
\* in UpstreamUnavailable with one call attempted.
C21_RetryOnlyFromRejection ==
    FirstCallFailed =>
        /\ RetryEntered => MarkedRejection
        /\ ~MarkedRejection => (pc = "UpstreamUnavailable" /\ Len(calls) = 1)

\* C22: with SAFE_PROMPTS set, the first upstream call of a request carries
\* the softened form of the prompt built for it, and when that call is
\* refused with a content-filter marker the request ends in
\* UpstreamUnavailable with 502 after that one call, RetryingSoftened never
\* entered.
C22_ProactiveSoftening ==
    (SafePrompts(env) /\ Len(calls) >= 1) =>
        /\ calls[1].prompt = SoftenPrompt(prompt)
        /\ pc # "RetryingSoftened"
        /\ (~calls[1].raised /\ HasFilterMarker(calls[1].error)) =>
               /\ Len(calls) = 1
               /\ pc = "UpstreamUnavailable"
               /\ response.status = 502

\* C23: on every endpoint, after a first call refused with a content-filter
\* marker while the prompt was not softened beforehand, the request is about
\* to issue, or has issued, exactly one retry with the softened prompt; after
\* any other first failure it is in UpstreamUnavailable with one call made.
C23_RetryEveryOperation ==
    FirstCallFailed =>
        IF MarkedRejection /\ ~SafePrompts(env)
        THEN \/ pc = "RetryingSoftened" /\ Len(calls) = 1
             \/ Len(calls) = 2 /\ calls[2].prompt = SoftenPrompt(calls[1].prompt)
        ELSE pc = "UpstreamUnavailable" /\ Len(calls) = 1

\* An upstream coordinate is absent: the endpoint (a text of slashes counts,
\* the trailing slashes being stripped), the deployment or the API key.
CoordinateMissing ==
    \/ \A i \in 1..Len(env.AZURE_OPENAI_ENDPOINT) : env.AZURE_OPENAI_ENDPOINT[i] = "/"
    \/ env.AZURE_DEPLOYMENT = <<>>
    \/ env.AZURE_OPENAI_API_KEY = <<>>

\* C26: with an upstream coordinate absent, the one invocation of the
\* upstream client returns the failure without a network call, no retry
\* follows, and the request ends in UpstreamUnavailable with 502, no network
\* call issued.
C26_ConfigMissing ==
    (CoordinateMissing /\ Len(calls) >= 1) =>
        /\ Len(calls) = 1
        /\ Issued = {}
        /\ ~calls[1].raised
        /\ calls[1].error # <<>>
        /\ pc = "UpstreamUnavailable"
        /\ response.status = 502

\* A /grade request answered 502 with the deployment absent.
C26_Witness ==
    /\ env.AZURE_DEPLOYMENT = <<>>
    /\ req.endpoint = "/grade"
    /\ Len(calls) = 1
    /\ calls[1].site = "config"
    /\ response.status = 502

(***************************************************************************)
(* Properties of the values of the 200 responses.                          *)
(***************************************************************************)
\* The mappings of a 200 response that are made from a mapping of the model's
\* JSON, each with the mapping it is made from and the keys of its shape.
Made(out, from, keys) == [out |-> out, from |-> from, keys |-> keys]

QuestionKeys ==
    {"questiontext", "questiontype", "difficulty", "blooms_level", "answers",
     "generalfeedback", "ai_reasoning"}

\* Whether entry, of the questions of the response, can be made from elem, of
\* the model's array, every key in exact having the value elem has for it.
EntryFrom(entry, elem, exact) ==
    /\ IsDict(elem)
    /\ \A key \in exact : HasKey(elem, key) => DictGet(entry, key, PyNone) = DictGet(elem, key, PyNone)

Mappings ==
    CASE req.endpoint \in {"/grade", "/refine_question"} ->
             {Made(Output, parsed, {OutputKeys[i] : i \in 1..Len(OutputKeys)})}
      [] req.endpoint = "/analyze_topics" -> {Made(response.content, parsed, {"topics"})}
      [] req.endpoint = "/generate_distractors" ->
             {Made(response.content, parsed, {"distractors"})}
      [] OTHER -> {}

Questions == DictGet(response.content, "questions", EmptyList).items

\* The token counters of the completion that the response is made from.
UsedTokens == calls[Len(calls)].result.tokens

\* C27 as claimed: in a 200 response every key of the shape that the model's
\* JSON object has carries exactly the value the model returned for it, and
\* the usage block is the token counters of the completion used.
C27_ValuePreserving ==
    (pc = "Done" /\ response.status = 200) =>
        /\ \A m \in Mappings : \A key \in m.keys :
              HasKey(m.from, key) => DictGet(m.out, key, PyNone) = DictGet(m.from, key, PyNone)
        /\ req.endpoint = "/generate_questions" =>
              \A k \in 1..Len(Questions) :
                  \E i \in 1..Len(parsed.items) :
                      EntryFrom(Questions[k], parsed.items[i], QuestionKeys)
        /\ response.usage = UsedTokens

\* The keys whose value the handlers convert or take from the request.
Converted == {"generalfeedback", "questiontype"}

\* C27: in a 200 response every key of the shape that the model's JSON object
\* has carries exactly the value the model returned for it - but
\* generalfeedback on /refine_question and /generate_questions, which is the
\* str() of the model's value (the value itself when it is a string), and
\* questiontype, which is the request's; the usage block is the token
\* counters of the completion used.
C27_Normalized ==
    (pc = "Done" /\ response.status = 200) =>
        /\ \A m \in Mappings :
              /\ \A key \in m.keys \ Converted :
                    HasKey(m.from, key) =>
                        DictGet(m.out, key, PyNone) = DictGet(m.from, key, PyNone)
              /\ (req.endpoint = "/refine_question" /\ HasKey(m.from, "generalfeedback")) =>
                    DictGet(m.out, "generalfeedback", PyNone)
                        = PyStrOf(DictGet(m.from, "generalfeedback", PyNone))
        /\ req.endpoint = "/generate_questions" =>
              \A k \in 1..Len(Questions) :
                  \E i \in 1..Len(parsed.items) :
                      /\ EntryFrom(Questions[k], parsed.items[i], QuestionKeys \ Converted)
                      /\ HasKey(parsed.items[i], "generalfeedback") =>
                            DictGet(Questions[k], "generalfeedback", PyNone)
                                = PyStrOf(DictGet(parsed.items[i], "generalfeedback", PyNone))
        /\ response.usage = UsedTokens

\* A refined question whose generalfeedback the model gave as a list and the
\* response carries as text, next to a difficulty carried as it is.
C27_Witness ==
    /\ pc = "Done"
    /\ req.endpoint = "/refine_question"
    /\ IsList(DictGet(parsed, "generalfeedback", PyNone))
    /\ DictGet(Output, "generalfeedback", PyNone) = PyText(<<"[", "]">>)
    /\ DictGet(Output, "difficulty", PyNone) = PyStr("\"hard\"")
    /\ response.usage.total = "10"

\* The request's prompt embeds long-form content: it is built by
\* _build_topic_extraction_prompt or _build_question_generation_prompt.
EmbedsContent == req.endpoint \in {"/analyze_topics", "/generate_questions"} /\ prompt # <<>>

\* The content the handler passes to the builder.
GivenContent ==
    StrippedField(req.body.payload,
                  IF req.endpoint = "/analyze_topics" THEN "content" ELSE "topic_content")

\* The line of the prompt that holds the content.
EmbeddedContent == IF req.endpoint = "/analyze_topics" THEN prompt[5] ELSE prompt[3]

\* The ceiling of the builder.
CeilingOf(endpoint) == IF endpoint = "/analyze_topics" THEN max_length ELSE max_content_length

\* line is the first n characters of text followed by a marker.
CutAndMarked(line, text, n) ==
    LET cut == Prefix(text, n) IN
    /\ Len(line) > Len(cut)
    /\ SubSeq(line, 1, Len(cut)) = cut

\* C29 as stated: in both builders, content longer than the ceiling is embedded
\* as its first ceiling characters followed by a truncation marker, and content
\* at or below the ceiling is embedded unchanged.
C29_Ceiling ==
    EmbedsContent =>
        IF TextLen(GivenContent) > CeilingOf(req.endpoint)
        THEN CutAndMarked(EmbeddedContent, GivenContent, CeilingOf(req.endpoint))
        ELSE EmbeddedContent = GivenContent

\* The members the handlers read as text.
TextualFields ==
    {"question", "question_name", "question_text", "questionText", "submission",
     "student_answer", "answer_key", "custom_instructions", "quiz_name", "content",
     "topic_title", "topic_content", "existing_question", "correct_answer",
     "old_question_text"}

\* Every member of m is absent, or is a textual member holding a string or null.
OnlyText(m) ==
    \A f \in FieldNames : m[f].k = "absent" \/ (f \in TextualFields /\ m[f].k \in {"str", "null"})

\* The body is a mapping with a mapping payload; operation and quality, and the
\* members of both, are textual members, each a string, null or missing.
TextOrMissing(body) ==
    /\ body.kind = "dict"
    /\ body.payloadKind = "dict"
    /\ body.operation.k \in {"absent", "null", "str"}
    /\ body.quality.k \in {"absent", "null", "str"}
    /\ OnlyText(body.top)
    /\ OnlyText(body.payload)

\* C30 as stated: with the textual members of a mapping payload missing or
\* null in any combination, the request never ends in an unhandled exception
\* while its prompt is built.
C30_NeverRaises ==
    TextOrMissing(req.body) => ~(pc = "Crashed" /\ calls = <<>>)

\* The terminal states of a request.
TerminalStates == {"Done", "AuthFailed", "BadRequest", "UpstreamUnavailable", "ParseFailed"}

\* The place of a state in the order of the states; terminal states come last,
\* and 0 is for what is no state of the request.
Rank(state) ==
    CASE state = "Authorizing" -> 1
      [] state = "BuildingPrompt" -> 2
      [] state = "Calling" -> 3
      [] state = "RetryingSoftened" -> 4
      [] state = "Extracting" -> 5
      [] state = "Normalizing" -> 6
      [] state \in TerminalStates -> 7
      [] OTHER -> 0

\* A step that changes the state moves the request forward in the order of the
\* states, and a terminal state is not left.
StepInOrder ==
    /\ pc \in TerminalStates => pc' = pc
    /\ pc' # pc => Rank(pc') > Rank(pc)

\* C31 as stated: every request eventually reaches one of the terminal states
\* Done, AuthFailed, BadRequest, UpstreamUnavailable and ParseFailed, passes
\* through the states only in the order Authorizing, BuildingPrompt, Calling,
\* (RetryingSoftened), Extracting, Normalizing, and never leaves a terminal state.
C31_Termination ==
    /\ <>(pc \in TerminalStates)
    /\ [][StepInOrder]_vars


\* The request's question_types.
RequestedTypes == QuestionTypes(req.body.payload).s

\* The request's num_questions, the number of requested types when the
\* request gives none.
RequestedCount ==
    IF req.body.payload["num_questions"].k = "num"
    THEN IntOf(req.body.payload["num_questions"].s[1])
    ELSE Len(RequestedTypes)

\* The indices, among the first n elements of the model's array, of the
\* elements that are mappings.
MappingIndices(n) == {i \in 1..Len(parsed.items) : i <= n /\ IsDict(parsed.items[i])}

\* The k-th index of a set of indices, in increasing order.
NthOf(indices, k) == CHOOSE i \in indices : Cardinality({j \in indices : j <= i}) = k

\* The type of the request for the element at array index i.
TypeAt(i) == IF i <= Len(RequestedTypes) THEN RequestedTypes[i] ELSE "multichoice"

\* C32 as stated: on /generate_questions with a model reply that is a JSON
\* array, the questions of the response are at most num_questions (by default
\* the number of requested types), one for each mapping among the first
\* num_questions elements of the array, in their order, each with the
\* request's type at its element's index, multichoice beyond the list.
C32_Questions ==
    (pc = "Done" /\ req.endpoint = "/generate_questions" /\ IsList(parsed)) =>
        LET indices == MappingIndices(RequestedCount) IN
        /\ Len(Questions) <= RequestedCount
        /\ Len(Questions) = Cardinality(indices)
        /\ \A k \in 1..Len(Questions) :
              /\ k <= Cardinality(indices)
              /\ EntryFrom(Questions[k], parsed.items[NthOf(indices, k)], {"questiontext"})
              /\ DictGet(Questions[k], "questiontype", PyNone)
                    = PyText(<<TypeAt(NthOf(indices, k))>>)

(***************************************************************************)
(* Properties of _select_from_distribution and of the PromptSoftener.      *)
(***************************************************************************)
\* The labels the mapping declares.
Declared == {distribution[i][1] : i \in 1..Len(distribution)}

\* C15: on every weight mapping, one without entries and one whose weights
\* sum to less than the draw included, and for every draw in 1..100, the
\* call of _select_from_distribution does not raise and returns a label that
\* the mapping declares.
C15_SelectTotal ==
    selRand # 0 => (~selected.raised /\ selected.label \in Declared)

\* Some token of some line of the softened prompt is the phrase, in whatever
\* letter case.
Carries(p, phrase) == \E i \in 1..Len(p) : \E j \in 1..Len(p[i]) : Lower(p[i][j]) = phrase

\* C16: the softened prompt has no line with the override-priority marker
\* and no "strict json" in any letter case, each of them replaced by "valid
\* JSON"; and softening the softened prompt changes none of its lines: it
\* only adds the closing line once more.
C16_Softened ==
    softened # <<>> =>
        /\ ~Carries(softened, "override any default guidance")
        /\ ~Carries(softened, "strict json")
        /\ \A i \in 1..Len(sofInput) : \A j \in 1..Len(sofInput[i]) :
              (/\ Lower(sofInput[i][j]) = "strict json"
               /\ ~HasPhrase(sofInput[i], "override any default guidance")
               /\ ~HasPhrase(sofInput[i], "do not wrap your response")) =>
                  \E k \in 1..Len(softened) :
                      /\ Len(softened[k]) = Len(sofInput[i])
                      /\ softened[k][j] = "valid JSON"
        /\ resoftened = softened \o <<Reminder>>

\* A prompt with a marker line and a line with the phrase in both cases.
C16_Witness ==
    /\ sofInput = << <<"Override Any Default Guidance", "text">>,
                     <<"strict json", "STRICT JSON">> >>
    /\ softened = << <<"valid JSON", "valid JSON">>, Reminder >>

\* The first entry of the mapping whose cumulative weight reaches the draw, 0
\* when the draw exceeds the total weight.
FirstReaching(dist, r) ==
    IF \E n \in 1..Len(dist) : Cumulative(dist, n) >= r
    THEN CHOOSE n \in 1..Len(dist) :
             /\ Cumulative(dist, n) >= r
             /\ \A m \in 1..(n - 1) : Cumulative(dist, m) < r
    ELSE 0

\* The label the claim names for the mapping and the draw.
Expected(dist, r) == IF FirstReaching(dist, r) = 0 THEN dist[1][1] ELSE dist[FirstReaching(dist, r)][1]

\* C24: on a mapping with entries, weights not negative, and a draw in
\* 1..100, _select_from_distribution returns the first label in declaration
\* order whose cumulative weight is at least the draw, and the first declared
\* label when the draw exceeds the total weight; the specification loop of
\* question generation writes one line for each entry of question_types,
\* whose difficulty is the selection for the slot's own first draw and whose
\* Bloom level is the selection for the slot's own second draw.
C24_Selection ==
    /\ (selRand # 0 /\ distribution # <<>>) =>
           /\ ~selected.raised
           /\ selected.label = Expected(distribution, selRand)
    /\ (selSpecs.done /\ distribution # <<>>) =>
           /\ ~selSpecs.raised
           /\ Len(selSpecs.lines) = Len(selTypes)
           /\ \A i \in 1..Len(selTypes) :
                  /\ selSpecs.lines[i][3] = Expected(distribution, selDraws[i][1])
                  /\ selSpecs.lines[i][5] = Expected(DefaultBloomsDist, selDraws[i][2])

\* Two slots whose draws differ, the first beyond the total weight of the
\* mapping and answered by the fallback, the second reaching the second label.
C24_Witness ==
    /\ selSpecs.done
    /\ Len(selTypes) = 2
    /\ Len(distribution) = 2
    /\ FirstReaching(distribution, selDraws[1][1]) = 0
    /\ FirstReaching(distribution, selDraws[2][1]) = 2
    /\ selSpecs.lines[1][3] # selSpecs.lines[2][3]
    /\ selSpecs.lines[1][5] # selSpecs.lines[2][5]

\* C25: no line of the softened prompt has the word "must", in whatever
\* letter case: on every line that is kept the word is replaced by "please"
\* or "Please"; and the last line of the softened prompt is the reminder.
C25_MustDowngraded ==
    softened # <<>> =>
        /\ ~Carries(softened, "must")
        /\ softened[Len(softened)] = Reminder

(***************************************************************************)
(* Properties of requests handled in parallel.                             *)
(***************************************************************************)
Gated(i) == reqs[i].endpoint \in GatedEndpoints

Answered(i) == locals[i].pc \in Terminal

\* What a request shows of its handling: the terminal state, the response and
\* the number of upstream calls.
Outcome(l) == <<l.pc, l.response, Len(l.calls)>>

\* What the upstream calls of a handler came to, in order.
OutcomesOf(invocations) ==
    [k \in 1..Len(invocations) |->
        CallOutcome(invocations[k].raised, invocations[k].result, invocations[k].error,
                    invocations[k].sent, invocations[k].site)]

\* The handler of r run alone, from l, on the outcomes outs of its calls, every
\* draw coming to 1.
RECURSIVE Replay(_, _, _, _)
Replay(e, r, l, outs) ==
    IF l.pc \in Terminal THEN l
    ELSE IF l.pc \in {"Calling", "RetryingSoftened"}
    THEN IF outs = <<>> THEN l
         ELSE Replay(e, r, Handle(e, r, l, Head(outs), <<>>, FALSE), Tail(outs))
    ELSE Replay(e, r,
                Handle(e, r, l, CallOutcome(TRUE, NoResult, <<>>, FALSE, "parse"),
                       [k \in 1..Slots(r) |-> <<1, 1>>], FALSE),
                outs)

Alone(i) == Replay(env, reqs[i], StartOf(reqs[i].endpoint), OutcomesOf(locals[i].calls))

Independent(i) == (Gated(i) /\ Answered(i)) => Outcome(locals[i]) = Outcome(Alone(i))

PastAuth(i) == Gated(i) /\ locals[i].pc # "Authorizing"

AuthOutcome(i) == IF locals[i].pc = "AuthFailed" THEN locals[i].response.status ELSE 0

Reported(i, key) == DictGet(locals[i].response.content, key, PyNone)

HealthAnswered(i) == reqs[i].endpoint = "/health" /\ locals[i].pc = "Done"

\* C19: the credential set that the AuthGate consults at any request, and
\* whose size /health reports at any request, is the set derived from the
\* configuration at startup; two requests of the same process that present
\* the same token get the same authorization outcome, whenever they come.
C19_CredentialSetFixed ==
    \A i \in DOMAIN locals :
        /\ PastAuth(i) => locals[i].allowed = startupKeys
        /\ HealthAnswered(i) =>
               Reported(i, "gateway_keys_count") = PyNum(Numeral(Cardinality(startupKeys)))
        /\ \A j \in DOMAIN locals :
               (/\ PastAuth(i) /\ PastAuth(j)
                /\ GatewayExtractBearerToken(reqs[i].header)
                       = GatewayExtractBearerToken(reqs[j].header))
               => AuthOutcome(i) = AuthOutcome(j)

C19_Witness ==
    \E i, j \in DOMAIN locals :
        /\ i # j
        /\ startupKeys # {}
        /\ Answered(i) /\ locals[i].calls # <<>>
        /\ locals[j].pc = "BuildingPrompt"
        /\ reqs[i].endpoint # reqs[j].endpoint
        /\ GatewayExtractBearerToken(reqs[i].header) = GatewayExtractBearerToken(reqs[j].header)

Unconfigured(i) == Reported(i, "gateway_configured") = PyBool(FALSE)

\* C20: /health answers 200 with status "ok" whatever the Authorization
\* header; gateway_keys_count is the size of the accepted-credential set and
\* gateway_configured tells whether it is greater than zero; the process whose
\* /health reports gateway_configured false is the one whose auth-gated
\* endpoints answer 503.
C20_Health ==
    \A i \in DOMAIN locals :
        HealthAnswered(i) =>
            /\ locals[i].response.status = 200
            /\ Reported(i, "status") = PyStr("\"ok\"")
            /\ Reported(i, "gateway_keys_count") = PyNum(Numeral(Cardinality(Allowed)))
            /\ Reported(i, "gateway_configured") = PyBool(Cardinality(Allowed) > 0)
            /\ \A j \in DOMAIN locals :
                   PastAuth(j) => (Unconfigured(i) <=> locals[j].response.status = 503)

C20_Witness ==
    \E i, j \in DOMAIN locals :
        /\ HealthAnswered(i)
        /\ reqs[i].header = NoHeader
        /\ Unconfigured(i)
        /\ Gated(j)
        /\ locals[j].response.status = 503
====
